---------------------------- MODULE Spec2Model ----------------------------
(***************************************************************************)
(* The Empathy Engine backend: the emotion scorer of model_adapter.py      *)
(* (signal detector, sarcasm check, classifier adapter, fallback), and the *)
(* chat store of storage.py with the add-message endpoint of main.py.      *)
(*                                                                         *)
(* A text is a sequence of characters, each a one-character string; a      *)
(* character outside ASCII (an emoji) is written by its code point,        *)
(* "U+1F622".  A probability is an exact fraction: a distribution is a     *)
(* record [num |-> (label -> Int), den |-> Int] that stands for the        *)
(* mapping label -> num[label] / den.                                      *)
(***************************************************************************)
EXTENDS Integers, Sequences, FiniteSets, TLC

(***************************************************************************)
(* Bounds of the model.                                                    *)
(***************************************************************************)
\* a text is the concatenation of at most MaxFrags fragments
MaxFrags == 2
\* a classifier response lists at most MaxPairs comma-separated segments
MaxPairs == 2

(***************************************************************************)
(* Generic helpers.                                                        *)
(***************************************************************************)
Range(s) == { s[i] : i \in 1..Len(s) }

SetMin(S) == CHOOSE x \in S : \A y \in S : x <= y

SetMax(S) == CHOOSE x \in S : \A y \in S : x >= y

RECURSIVE Flatten(_)
Flatten(ss) == IF ss = << >> THEN << >> ELSE Head(ss) \o Flatten(Tail(ss))

RECURSIVE SumOver(_, _)
SumOver(f, S) ==
  IF S = {} THEN 0
  ELSE LET x == CHOOSE y \in S : TRUE IN f[x] + SumOver(f, S \ {x})

\* every sequence of at most n elements of S
SeqsUpTo(S, n) == UNION { [1..k -> S] : k \in 0..n }

(***************************************************************************)
(* model_adapter.py: the tables.                                           *)
(***************************************************************************)
EMOTIONS ==
  << "joy", "sadness", "anger", "fear", "surprise", "stress", "tension",
     "disgust", "anticipation", "neutral" >>

Labels == Range(EMOTIONS)

\* the place of a key in a mapping's iteration order: the fixed labels in the
\* order of EMOTIONS, any other key after them
KeyIndex(k) ==
  IF k \in Labels THEN CHOOSE i \in 1..Len(EMOTIONS) : EMOTIONS[i] = k
  ELSE Len(EMOTIONS) + 1

EMOTION_KEYWORDS ==
  [ joy |->
      { <<"h","a","p","p","y">>,
        <<"e","x","c","i","t","e","d">>,
        <<"w","o","n","d","e","r","f","u","l">>,
        <<"a","m","a","z","i","n","g">>,
        <<"l","o","v","e">>,
        <<"f","a","n","t","a","s","t","i","c">>,
        <<"e","x","c","e","l","l","e","n","t">>,
        <<"t","h","r","i","l","l","e","d">>,
        <<"d","e","l","i","g","h","t","e","d">>,
        <<"g","l","a","d">>,
        <<"j","o","y","f","u","l">> },
    sadness |->
      { <<"s","a","d">>,
        <<"d","e","p","r","e","s","s","e","d">>,
        <<"u","n","h","a","p","p","y">>,
        <<"m","i","s","e","r","a","b","l","e">>,
        <<"h","e","a","r","t","b","r","o","k","e","n">>,
        <<"d","e","v","a","s","t","a","t","e","d">>,
        <<"l","o","n","e","l","y">>,
        <<"h","u","r","t">>,
        <<"c","r","y","i","n","g">>,
        <<"l","o","w">>,
        <<"d","o","w","n">>,
        <<"b","l","u","e">> },
    anger |->
      { <<"a","n","g","r","y">>,
        <<"m","a","d">>,
        <<"f","u","r","i","o","u","s">>,
        <<"i","r","r","i","t","a","t","e","d">>,
        <<"a","n","n","o","y","e","d">>,
        <<"p","i","s","s","e","d">>,
        <<"h","a","t","e">>,
        <<"r","i","d","i","c","u","l","o","u","s">>,
        <<"o","u","t","r","a","g","e","o","u","s">>,
        <<"d","i","s","l","i","k","e">>,
        <<"f","r","u","s","t","r","a","t">> },
    fear |->
      { <<"s","c","a","r","e","d">>,
        <<"a","f","r","a","i","d">>,
        <<"t","e","r","r","i","f","i","e","d">>,
        <<"a","n","x","i","o","u","s">>,
        <<"w","o","r","r","i","e","d">>,
        <<"n","e","r","v","o","u","s">>,
        <<"f","r","i","g","h","t","e","n","e","d">>,
        <<"p","a","n","i","c">> },
    surprise |->
      { <<"s","u","r","p","r","i","s","e","d">>,
        <<"s","h","o","c","k","e","d">>,
        <<"a","m","a","z","e","d">>,
        <<"u","n","e","x","p","e","c","t","e","d">>,
        <<"w","o","w">>,
        <<"o","m","g">>,
        <<"i","n","c","r","e","d","i","b","l","e">> },
    disgust |->
      { <<"d","i","s","g","u","s","t","e","d">>,
        <<"g","r","o","s","s">>,
        <<"s","i","c","k">>,
        <<"r","e","v","o","l","t","i","n","g">>,
        <<"n","a","s","t","y">>,
        <<"e","w","w">>,
        <<"y","u","c","k">>,
        <<"i","d","i","o","t">>,
        <<"s","t","u","p","i","d">>,
        <<"d","u","m","b">>,
        <<"m","o","r","o","n">> },
    stress |->
      { <<"s","t","r","e","s","s","e","d">>,
        <<"o","v","e","r","w","h","e","l","m","e","d">>,
        <<"p","r","e","s","s","u","r","e">>,
        <<"t","e","n","s","e">>,
        <<"e","x","h","a","u","s","t","e","d">>,
        <<"b","u","r","n","e","d"," ","o","u","t">> },
    tension |->
      { <<"t","e","n","s","i","o","n">>,
        <<"a","w","k","w","a","r","d">>,
        <<"u","n","c","o","m","f","o","r","t","a","b","l","e">>,
        <<"u","n","e","a","s","y">> },
    anticipation |->
      { <<"l","o","o","k","i","n","g"," ","f","o","r","w","a","r","d">>,
        <<"c","a","n","'","t"," ","w","a","i","t">>,
        <<"e","a","g","e","r">>,
        <<"a","n","t","i","c","i","p","a","t","i","n","g">>,
        <<"h","o","p","e","f","u","l">>,
        <<"e","x","p","e","c","t","i","n","g">> } ]

EMOTION_EMOJIS ==
  << [emotion |-> "joy", emojis |-> {"U+1F60A", "U+1F603", "U+1F604", "U+1F601", "U+1F606", "U+1F917", "U+1F970", "U+1F60D", "U+1F389", "U+2728"}],
     [emotion |-> "sadness", emojis |-> {"U+1F622", "U+1F62D", "U+1F614", "U+1F61E", "U+1F494", "U+1F63F"}],
     [emotion |-> "anger", emojis |-> {"U+1F621", "U+1F620", "U+1F92C", "U+1F624", "U+1F4A2"}],
     [emotion |-> "fear", emojis |-> {"U+1F631", "U+1F628", "U+1F630", "U+1F627", "U+1F626"}],
     [emotion |-> "surprise", emojis |-> {"U+1F632", "U+1F62E", "U+1F62F", "U+1F92F"}],
     [emotion |-> "disgust", emojis |-> {"U+1F922", "U+1F92E", "U+1F616", "U+1F623"}],
     [emotion |-> "stress", emojis |-> {"U+1F62B", "U+1F629", "U+1F613", "U+1F630"}],
     [emotion |-> "anticipation", emojis |-> {"U+1F929", "U+1F60D", "U+1F973"}] >>

(***************************************************************************)
(* Characters and the regular-expression primitives the patterns use.      *)
(***************************************************************************)
LowerLetters ==
  << "a","b","c","d","e","f","g","h","i","j","k","l","m",
     "n","o","p","q","r","s","t","u","v","w","x","y","z" >>

UpperLetters ==
  << "A","B","C","D","E","F","G","H","I","J","K","L","M",
     "N","O","P","Q","R","S","T","U","V","W","X","Y","Z" >>

Digits == { "0","1","2","3","4","5","6","7","8","9" }

UpperSet == Range(UpperLetters)

WordChars ==
  Range(LowerLetters) \cup Range(UpperLetters) \cup Digits \cup {"_"}

\* [A-Z]
IsUpper(c) == c \in UpperSet

\* \w
IsWordChar(c) == c \in WordChars

\* \s
IsSpace(c) == c \in { " ", "\t", "\n", "\r" }

\* str.lower() on one character
LowerChar(c) ==
  IF IsUpper(c)
  THEN LowerLetters[CHOOSE i \in 1..26 : UpperLetters[i] = c]
  ELSE c

\* str.lower()
Lower(t) == [ i \in 1..Len(t) |-> LowerChar(t[i]) ]

\* str.strip()
Strip(t) ==
  LET keep == { i \in 1..Len(t) : ~IsSpace(t[i]) }
  IN  IF keep = {} THEN << >>
      ELSE SubSeq(t, SetMin(keep), SetMax(keep))

\* the literal w stands in t from position i on
StartsAt(t, i, w) ==
  /\ i >= 1
  /\ i + Len(w) - 1 <= Len(t)
  /\ \A k \in 1..Len(w) : t[i + k - 1] = w[k]

\* w in t
Contains(t, w) == \E i \in 1..(Len(t) + 1) : StartsAt(t, i, w)

\* every character of t from position a up to b - 1 satisfies \s
SpacesBetween(t, a, b) == \A k \in a..(b - 1) : IsSpace(t[k])

\* \b at the gap before position i
WordBoundaryAt(t, i) ==
  LET before == i > 1 /\ IsWordChar(t[i - 1])
      after  == i <= Len(t) /\ IsWordChar(t[i])
  IN  before # after

\* the variant without the leading \b: the keyword anywhere in the text
KeywordMatches_Substring(t, keyword) ==
  \E i \in 1..Len(t) : StartsAt(t, i, keyword)

\* re.search(r'\b' + re.escape(keyword), text_lower)
KeywordMatches(t, keyword) ==
  \E i \in 1..Len(t) : WordBoundaryAt(t, i) /\ StartsAt(t, i, keyword)

(***************************************************************************)
(* model_adapter.py: _has_emotion_signal.                                  *)
(***************************************************************************)
\* the variant that looks for anger before disgust
emotion_priority_AngerFirst ==
  << "anger", "disgust", "sadness", "fear", "surprise", "joy", "stress",
     "tension", "anticipation" >>

\* the order in which the emotions' keywords are looked for
emotion_priority ==
  << "disgust", "anger", "sadness", "fear", "surprise", "joy", "stress",
     "tension", "anticipation" >>

\* the places in emotion_priority of the emotions a keyword of which matches
KeywordHits(text_lower) ==
  { p \in 1..Len(emotion_priority) :
      \E keyword \in EMOTION_KEYWORDS[emotion_priority[p]] :
        KeywordMatches(text_lower, keyword) }

\* the places in EMOTION_EMOJIS of the emotions an emoji of which is in text
EmojiHits(text) ==
  { p \in 1..Len(EMOTION_EMOJIS) :
      \E k \in 1..Len(text) : text[k] \in EMOTION_EMOJIS[p].emojis }

\* re.search over EMPHASIS_PATTERNS: "!!+", "\?\?+", "[A-Z]{3,}"
EmphasisMatches(text) ==
  \/ Contains(text, <<"!", "!">>)
  \/ Contains(text, <<"?", "?">>)
  \/ \E i \in 1..(Len(text) - 2) :
       IsUpper(text[i]) /\ IsUpper(text[i + 1]) /\ IsUpper(text[i + 2])

\* the variant that looks for the emojis before the keywords
has_emotion_signal_EmojiFirst(text) ==
  LET text_lower == Lower(text)
      kw == KeywordHits(text_lower)
      em == EmojiHits(text)
  IN  IF em # {} THEN << TRUE, EMOTION_EMOJIS[SetMin(em)].emotion >>
      ELSE IF kw # {} THEN << TRUE, emotion_priority[SetMin(kw)] >>
      ELSE IF EmphasisMatches(text) THEN << TRUE, "emphasis_detected" >>
      ELSE << FALSE, "no_signal" >>

\* returns <<has_signal, detected_emotion_or_reason>>
has_emotion_signal(text) ==
  LET text_lower == Lower(text)
      kw == KeywordHits(text_lower)
      em == EmojiHits(text)
  IN  IF kw # {} THEN << TRUE, emotion_priority[SetMin(kw)] >>
      ELSE IF em # {} THEN << TRUE, EMOTION_EMOJIS[SetMin(em)].emotion >>
      ELSE IF EmphasisMatches(text) THEN << TRUE, "emphasis_detected" >>
      ELSE << FALSE, "no_signal" >>

(***************************************************************************)
(* model_adapter.py: the sarcasm patterns of classify_emotion, step 3.     *)
(***************************************************************************)
\* r"yeah\s+(right|sure|great|okay).*not"
SarcasmYeah(t) ==
  \E i \in 1..Len(t) :
    /\ StartsAt(t, i, <<"y","e","a","h">>)
    /\ \E j \in (i + 5)..Len(t) :
         /\ SpacesBetween(t, i + 4, j)
         /\ \E alt \in { <<"r","i","g","h","t">>, <<"s","u","r","e">>,
                         <<"g","r","e","a","t">>, <<"o","k","a","y">> } :
              /\ StartsAt(t, j, alt)
              /\ \E n \in (j + Len(alt))..Len(t) :
                   /\ \A k \in (j + Len(alt))..(n - 1) : t[k] # "\n"
                   /\ StartsAt(t, n, <<"n","o","t">>)

\* r"oh\s+(great|wonderful|fantastic).*\.\.\."
SarcasmOh(t) ==
  \E i \in 1..Len(t) :
    /\ StartsAt(t, i, <<"o","h">>)
    /\ \E j \in (i + 3)..Len(t) :
         /\ SpacesBetween(t, i + 2, j)
         /\ \E alt \in { <<"g","r","e","a","t">>,
                         <<"w","o","n","d","e","r","f","u","l">>,
                         <<"f","a","n","t","a","s","t","i","c">> } :
              /\ StartsAt(t, j, alt)
              /\ \E n \in (j + Len(alt))..Len(t) :
                   /\ \A k \in (j + Len(alt))..(n - 1) : t[k] # "\n"
                   /\ StartsAt(t, n, <<".",".",".">>)

\* r"sure\s*[,.]?\s*whatever"
SarcasmSure(t) ==
  \E i \in 1..Len(t) :
    /\ StartsAt(t, i, <<"s","u","r","e">>)
    /\ \E j \in (i + 4)..Len(t) :
         /\ SpacesBetween(t, i + 4, j)
         /\ \E m \in { j, j + 1 } :
              /\ m = j + 1 => t[j] \in { ",", "." }
              /\ \E n \in m..Len(t) :
                   /\ SpacesBetween(t, m, n)
                   /\ StartsAt(t, n, <<"w","h","a","t","e","v","e","r">>)

\* r"fine\s*[.!]+\s*$"
SarcasmFine(t) ==
  \E i \in 1..Len(t) :
    /\ StartsAt(t, i, <<"f","i","n","e">>)
    /\ \E j \in (i + 4)..Len(t) :
         /\ SpacesBetween(t, i + 4, j)
         /\ \E m \in (j + 1)..(Len(t) + 1) :
              /\ \A k \in j..(m - 1) : t[k] \in { ".", "!" }
              /\ SpacesBetween(t, m, Len(t) + 1)

\* any(re.search(pattern, text_lower) for pattern in sarcasm_patterns)
SarcasmMatches(text) ==
  LET text_lower == Lower(text)
  IN  \/ SarcasmYeah(text_lower)
      \/ SarcasmOh(text_lower)
      \/ SarcasmSure(text_lower)
      \/ SarcasmFine(text_lower)

(***************************************************************************)
(* Distributions.                                                          *)
(***************************************************************************)
\* {k: v/total for k, v in emotion_probs.items()}, total = sum of the values
Normalize(weights) ==
  [ num |-> weights, den |-> SumOver(weights, DOMAIN weights) ]

\* {emotion: value for emotion in EMOTIONS}
Flat(n, d) == [ num |-> [ e \in Labels |-> n ], den |-> d ]

\* the sum of a distribution's values, as the fraction SumNum(d) / d.den
SumNum(d) == SumOver(d.num, DOMAIN d.num)

\* max(probs, key=probs.get): the first key, in iteration order, of the
\* highest value
Dominant(d) ==
  LET top == { k \in DOMAIN d.num : \A o \in DOMAIN d.num : d.num[k] >= d.num[o] }
  IN  CHOOSE k \in top : \A o \in top : KeyIndex(k) <= KeyIndex(o)

\* classify_emotion, step 2: the high-confidence distribution of a detected
\* emotion.  A key that is no label is added to the mapping by the assignment.
KeywordDist(signal_type) ==
  LET base == [ e \in Labels \cup {signal_type} |->
                  IF e = "neutral" THEN 1
                  ELSE IF e = signal_type THEN 80
                  ELSE 2 ]
      boosted ==
        IF signal_type = "disgust" THEN [ base EXCEPT !["anger"] = 12 ]
        ELSE IF signal_type = "anger" THEN [ base EXCEPT !["disgust"] = 8 ]
        ELSE IF signal_type = "sadness" THEN [ base EXCEPT !["fear"] = 5 ]
        ELSE base
  IN  Normalize(boosted)

\* the variant that takes any signal, also "emphasis_detected", as decisive
IsDecisive_AnySignal(has_sig, sig_type) == has_sig

\* classify_emotion, step 2: the guard of the keyword classification
IsDecisive(has_sig, sig_type) == has_sig /\ sig_type \in Labels

\* the variant that gives every label 0.05
SarcasmDist_NoAnger == Flat(5, 100)

\* classify_emotion, step 3: the distribution returned for sarcasm
SarcasmDist ==
  [ num |-> [ e \in Labels |->
                IF e = "anger" THEN 50 ELSE IF e = "disgust" THEN 20 ELSE 5 ],
    den |-> 100 ]

\* the variant that tests the length only
IsShortPlain_NoPunctuationTest(text) == Len(Strip(text)) < 10

\* classify_emotion, step 5: the fallback distributions
IsShortPlain(text) ==
  /\ Len(Strip(text)) < 10
  /\ ~Contains(text, <<"?">>)
  /\ ~Contains(text, <<"!">>)

AmbiguousDist ==
  [ num |-> [ e \in Labels |->
                IF e \in {"stress", "tension", "disgust"} THEN 8
                ELSE IF e = "neutral" THEN 16
                ELSE 10 ],
    den |-> 100 ]

FallbackDist(text) ==
  IF IsShortPlain(text) THEN Flat(1, 10) ELSE AmbiguousDist

(***************************************************************************)
(* model_adapter.py: _parse_emotion_response.  A response is a sequence of *)
(* tokens: a word, a number as written, ":", "," or a blank.               *)
(***************************************************************************)
\* float(): the value, in hundredths, of the tokens that are numbers
NumberTokens == { "0", "0.3", "0.4", "0.6", "0.9", "1.5", "-0.2" }

FloatOf(tok) ==
  CASE tok = "0"    -> 0
    [] tok = "0.3"  -> 30
    [] tok = "0.4"  -> 40
    [] tok = "0.6"  -> 60
    [] tok = "0.9"  -> 90
    [] tok = "1.5"  -> 150
    [] tok = "-0.2" -> -20

\* str.lower() on a token
LowerToken(tok) ==
  CASE tok = "Neutral" -> "neutral"
    [] tok = "Anger"   -> "anger"
    [] OTHER           -> tok

\* str.strip() on a token sequence
StripTokens(s) ==
  LET keep == { i \in 1..Len(s) : ~IsSpace(s[i]) }
  IN  IF keep = {} THEN << >>
      ELSE SubSeq(s, SetMin(keep), SetMax(keep))

\* str.split(sep)
RECURSIVE Split(_, _)
Split(s, sep) ==
  IF \A i \in 1..Len(s) : s[i] # sep THEN << s >>
  ELSE LET p == SetMin({ i \in 1..Len(s) : s[i] = sep })
       IN  << SubSeq(s, 1, p - 1) >> \o Split(SubSeq(s, p + 1, Len(s)), sep)

\* max(0.0, min(1.0, prob)), in hundredths
Clamp(v) == IF v < 0 THEN 0 ELSE IF v > 100 THEN 100 ELSE v

\* the pair raises ValueError: it does not split in two at ":", or its value
\* is no number
PairRaises(pair) ==
  /\ \E i \in 1..Len(pair) : pair[i] = ":"
  /\ LET parts == Split(pair, ":")
     IN  \/ Len(parts) # 2
         \/ LET prob == StripTokens(parts[2])
            IN  ~(Len(prob) = 1 /\ prob[1] \in NumberTokens)

\* the loop over the pairs, none of which raises
RECURSIVE ApplyPairs(_, _)
ApplyPairs(probs, pairs) ==
  IF pairs = << >> THEN probs
  ELSE LET pair == Head(pairs)
           parts == Split(pair, ":")
           emotion == StripTokens(parts[1])
           known == Len(parts) = 2 /\ Len(emotion) = 1 /\ emotion[1] \in Labels
           next == IF known
                   THEN [ probs EXCEPT
                            ![emotion[1]] = Clamp(FloatOf(StripTokens(parts[2])[1])) ]
                   ELSE probs
       IN  ApplyPairs(next, Tail(pairs))

parse_emotion_response(response_text) ==
  LET lowered == [ i \in 1..Len(response_text) |-> LowerToken(response_text[i]) ]
      pairs == Split(StripTokens(lowered), ",")
      raises == \E i \in 1..Len(pairs) : PairRaises(pairs[i])
      probs == ApplyPairs([ e \in Labels |-> 0 ], pairs)
      total == SumOver(probs, Labels)
  IN  IF raises THEN Flat(1, 10)
      ELSE IF total > 0 THEN [ num |-> probs, den |-> total ]
      ELSE Flat(1, 10)

\* the variant that passes the parsed distribution on as it is
AntiNeutral_Off(d) == d

\* classify_emotion, step 4: the anti-neutral enforcement
AntiNeutral(d) ==
  LET non_neutral == Labels \ {"neutral"}
      max_non_neutral == SetMax({ d.num[e] : e \in non_neutral })
      top == { e \in non_neutral : d.num[e] = max_non_neutral }
      max_emotion == CHOOSE e \in top : \A o \in top : KeyIndex(e) <= KeyIndex(o)
  IN  IF 2 * d.num["neutral"] > d.den /\ 10 * max_non_neutral >= 3 * d.den
      THEN [ num |-> [ e \in Labels |->
                         IF e = max_emotion THEN 600
                         ELSE IF e = "neutral" THEN 200
                         ELSE 25 ],
             den |-> 1000 ]
      ELSE d

(***************************************************************************)
(* The inputs of classify_emotion.                                         *)
(***************************************************************************)
Fragments ==
  { <<"m","a","d">>,
    <<"a","m">>,
    <<"n","o">>,
    <<" ","i","d","i","o","t">>,
    <<"U+1F622">>,
    <<"!">>,
    <<"?">>,
    <<"W","H","Y">>,
    <<"y","e","a","h"," ","g","r","e","a","t">>,
    <<" ","n","o","t">>,
    <<"f","i","n","e",".">>,
    <<"s","u","r","e",",">>,
    <<"w","h","a","t","e","v","e","r">>,
    <<"o","h"," ","g","r","e","a","t">>,
    <<".",".",".">>,
    <<"s","e","e"," ","y","o","u"," ","a","t"," ","3">> }

Texts == { Flatten(fs) : fs \in SeqsUpTo(Fragments, MaxFrags) }

\* the segments a classifier response is made of
Segments ==
  { <<"Neutral", ":", " ", "0.6">>,
    <<" ", "anger", ":", "0.3">>,
    <<"joy", ":", "0.4">>,
    <<"happy", ":", "high">> }

RECURSIVE Join(_)
Join(ss) ==
  IF ss = << >> THEN << >>
  ELSE IF Len(ss) = 1 THEN ss[1]
  ELSE ss[1] \o <<",">> \o Join(Tail(ss))

Responses == { Join(ss) : ss \in SeqsUpTo(Segments, MaxPairs) }

(***************************************************************************)
(* main.py: the scoring helpers of the endpoints.                          *)
(***************************************************************************)
\* what classify_emotion returns when the classifier answers "joy:0.4"
JoyAnswer == AntiNeutral(parse_emotion_response(<<"joy", ":", "0.4">>))

\* calculate_entropy, in thousandths, tabulated for the distributions the
\* store is fed with (-sum p*log2(p) / log2(10), rounded to three places)
calculate_entropy(probs) ==
  CASE probs = SarcasmDist          -> 811
    [] probs = KeywordDist("sadness") -> 400
    [] probs = Flat(1, 10)          -> 1000
    [] probs = AmbiguousDist        -> 991
    [] probs = JoyAnswer            -> 0

\* get_confidence_bucket, on thousandths
get_confidence_bucket(entropy) ==
  IF entropy < 300 THEN "high"
  ELSE IF entropy < 600 THEN "medium"
  ELSE "low"

(***************************************************************************)
(* The inputs of the store: what the endpoints pass to add_message, a text *)
(* with a distribution classify_emotion returns for it.                    *)
(***************************************************************************)
StoreInputs ==
  { [ text |-> <<"f","i","n","e",".">>, probs |-> SarcasmDist ],
    [ text |-> <<"U+1F622">>,           probs |-> KeywordDist("sadness") ] }

Speakers == { "user", "assistant" }

Users == { "u1", "u2" }

\* the titles update_chat_title is called with
Titles == { <<"T">> }

\* at most MaxChats chats are ever created; their ids stand for the uuids
MaxChats == 2
\* a chat takes at most MaxMsgs messages
MaxMsgs == 2
\* the clock stops at MaxClock
MaxClock == 3

\* the requests that run in the add-message endpoint at the same time
Requests == { "r1", "r2" }

ChatIds == 1..MaxChats

(***************************************************************************)
(* State.                                                                  *)
(***************************************************************************)
VARIABLES
  \* one call of classify_emotion
  text,           \* the argument
  pc,             \* where the call stands: "start", "step2", "step4", "step5", "done"
  has_signal,     \* _has_emotion_signal's first result
  signal_type,    \* _has_emotion_signal's second result
  emotion_probs,  \* the returned mapping, NoResult until the call returns
  path,           \* the return statement taken
  stages,         \* the stages run so far, in order
  apiCalls,       \* calls of model.generate_content made
  apiOutcome,     \* "none", "ok" (a response came back) or "error" (it raised)
  \* the ChatStorage instance
  chats,          \* self.chats: chat id -> chat record
  user_chats,     \* self.user_chats: user id -> list of chat ids
  emotion_cache,  \* self.emotion_cache: chat id -> summary
  now,            \* the clock datetime.utcnow() reads
  nextId,         \* the number of chats created so far, plus one
  ret,            \* the last storage call and what it returned
  \* the requests running in the add-message endpoint
  req             \* request -> its position and local variables

classifyVars ==
  << text, pc, has_signal, signal_type, emotion_probs, path, stages, apiCalls,
     apiOutcome >>

storeVars == << chats, user_chats, emotion_cache, now, nextId, ret >>

vars == << classifyVars, storeVars, req >>

NoResult == [ num |-> << >>, den |-> 1 ]

\* the values the variables of a part of the program have while another
\* part is looked at
ClassifyIdle ==
  /\ text = << >>
  /\ pc = "idle"
  /\ has_signal = FALSE
  /\ signal_type = "unset"
  /\ emotion_probs = NoResult
  /\ path = "none"
  /\ stages = << >>
  /\ apiCalls = 0
  /\ apiOutcome = "none"

\* ChatStorage.__init__, with no file to load
StoreInit ==
  /\ chats = << >>
  /\ user_chats = [ u \in Users |-> << >> ]
  /\ emotion_cache = << >>
  /\ now = 0
  /\ nextId = 1
  /\ ret = [ op |-> "init" ]

RequestsIdle == req = << >>

(***************************************************************************)
(* model_adapter.py: classify_emotion, one action per stage.               *)
(***************************************************************************)
InitClassify ==
  /\ text \in Texts
  /\ pc = "start"
  /\ has_signal = FALSE
  /\ signal_type = "unset"
  /\ emotion_probs = NoResult
  /\ path = "none"
  /\ stages = << >>
  /\ apiCalls = 0
  /\ apiOutcome = "none"
  /\ StoreInit
  /\ RequestsIdle

\* STEP 1: has_signal, signal_type = _has_emotion_signal(text)
DetectSignal ==
  /\ pc = "start"
  /\ LET r == has_emotion_signal(text)
     IN  /\ has_signal' = r[1]
         /\ signal_type' = r[2]
  /\ stages' = Append(stages, "detector")
  /\ pc' = "step2"
  /\ UNCHANGED << text, emotion_probs, path, apiCalls, apiOutcome >>
  /\ UNCHANGED << storeVars, req >>

\* STEP 2: a detected emotion returns its high-confidence distribution
KeywordClassify ==
  /\ pc = "step2"
  /\ IsDecisive(has_signal, signal_type)
  /\ emotion_probs' = KeywordDist(signal_type)
  /\ path' = "keyword"
  /\ pc' = "done"
  /\ UNCHANGED << text, has_signal, signal_type, stages, apiCalls, apiOutcome >>
  /\ UNCHANGED << storeVars, req >>

\* STEP 3: a sarcasm pattern matches and the fixed distribution is returned
SarcasmReturn ==
  /\ pc = "step2"
  /\ ~IsDecisive(has_signal, signal_type)
  /\ SarcasmMatches(text)
  /\ stages' = Append(stages, "sarcasm")
  /\ emotion_probs' = SarcasmDist
  /\ path' = "sarcasm"
  /\ pc' = "done"
  /\ UNCHANGED << text, has_signal, signal_type, apiCalls, apiOutcome >>
  /\ UNCHANGED << storeVars, req >>

\* STEP 3: no sarcasm pattern matches
SarcasmPass ==
  /\ pc = "step2"
  /\ ~IsDecisive(has_signal, signal_type)
  /\ ~SarcasmMatches(text)
  /\ stages' = Append(stages, "sarcasm")
  /\ pc' = "step4"
  /\ UNCHANGED << text, has_signal, signal_type, emotion_probs, path, apiCalls,
                  apiOutcome >>
  /\ UNCHANGED << storeVars, req >>

\* the variant that asks the classifier again
AfterFailure_Retry == "step4"

\* the statement reached when the try block of step 4 raises
AfterFailure == "step5"

\* what step 4 returns, over every response: the response parsed, then
\* corrected
ClassifierAnswers ==
  { AntiNeutral(parse_emotion_response(response_text)) :
      response_text \in Responses }

\* STEP 4: model.generate_content answers; the response is parsed and
\* corrected, and returned
GeminiAnswers ==
  /\ pc = "step4"
  /\ apiCalls < 3
  /\ \E answer \in ClassifierAnswers : emotion_probs' = answer
  /\ apiCalls' = apiCalls + 1
  /\ apiOutcome' = "ok"
  /\ stages' = Append(stages, "classifier")
  /\ path' = "classifier"
  /\ pc' = "done"
  /\ UNCHANGED << text, has_signal, signal_type >>
  /\ UNCHANGED << storeVars, req >>

\* STEP 4: model.generate_content (or response.text) raises; the exception
\* is caught and the call falls through
GeminiRaises ==
  /\ pc = "step4"
  /\ apiCalls < 3
  /\ apiCalls' = apiCalls + 1
  /\ apiOutcome' = "error"
  /\ stages' = Append(stages, "classifier")
  /\ pc' = AfterFailure
  /\ UNCHANGED << text, has_signal, signal_type, emotion_probs, path >>
  /\ UNCHANGED << storeVars, req >>

\* STEP 5: the fallback on the text's length and punctuation
Fallback ==
  /\ pc = "step5"
  /\ stages' = Append(stages, "fallback")
  /\ emotion_probs' = FallbackDist(text)
  /\ path' = IF IsShortPlain(text) THEN "short" ELSE "ambiguous"
  /\ pc' = "done"
  /\ UNCHANGED << text, has_signal, signal_type, apiCalls, apiOutcome >>
  /\ UNCHANGED << storeVars, req >>

NextClassify ==
  \/ DetectSignal
  \/ KeywordClassify
  \/ SarcasmReturn
  \/ SarcasmPass
  \/ GeminiAnswers
  \/ GeminiRaises
  \/ Fallback

SpecClassify == InitClassify /\ [][NextClassify]_vars

(***************************************************************************)
(* storage.py: helpers.                                                    *)
(***************************************************************************)
Ellipsis == <<".", ".", ".">>

\* str.split(): the maximal runs of characters that are not blank
RECURSIVE SplitWords(_)
SplitWords(t) ==
  LET s == Strip(t)
  IN  IF s = << >> THEN << >>
      ELSE LET blanks == { i \in 1..Len(s) : IsSpace(s[i]) }
           IN  IF blanks = {} THEN << s >>
               ELSE LET p == SetMin(blanks)
                    IN  << SubSeq(s, 1, p - 1) >>
                          \o SplitWords(SubSeq(s, p + 1, Len(s)))

\* " ".join(words)
RECURSIVE JoinWords(_)
JoinWords(words) ==
  IF words = << >> THEN << >>
  ELSE IF Len(words) = 1 THEN words[1]
  ELSE words[1] \o <<" ">> \o JoinWords(Tail(words))

\* ChatStorage._generate_title
generate_title(t) ==
  LET words == SplitWords(t)
      title == JoinWords(SubSeq(words, 1, IF Len(words) < 5 THEN Len(words) ELSE 5))
  IN  IF Len(words) > 5 THEN title \o Ellipsis ELSE title

\* text[:50] + "..." if len(text) > 50 else text
Snippet(t) == IF Len(t) > 50 THEN SubSeq(t, 1, 50) \o Ellipsis ELSE t

NewChatTitle == <<"N","e","w"," ","C","h","a","t">>

NewChatSnippet == <<"N","e","w"," ","c","h","a","t">>

\* the chat record create_chat stores; a missing initial message is << >>
NewChat(chat_id, user_id, initial_message, created_at) ==
  [ metadata |->
      [ chatId |-> chat_id,
        id |-> chat_id,
        userId |-> user_id,
        title |-> IF initial_message # << >>
                  THEN generate_title(initial_message) ELSE NewChatTitle,
        createdAt |-> created_at,
        lastUpdatedAt |-> created_at,
        snippet |-> IF initial_message # << >>
                    THEN Snippet(initial_message) ELSE NewChatSnippet,
        dominant_emotion |-> "neutral",
        messageCount |-> 0 ],
    messages |-> << >>,
    emotionTimeline |-> [ e \in Labels |-> << >> ] ]

\* the variant that numbers from 0
NextMessageId_ZeroBased(messages) == Len(messages)

\* add_message: message_id = len(chat["messages"]) + 1
NextMessageId(messages) == Len(messages) + 1

\* add_message: for emotion, prob in probs.items():
\*                  chat["emotionTimeline"][emotion].append(prob)
AppendTimeline(timeline, probs) ==
  [ e \in DOMAIN timeline |->
      IF e \in DOMAIN probs.num
      THEN Append(timeline[e], << probs.num[e], probs.den >>)
      ELSE timeline[e] ]

\* the keys of emotion_counts in insertion order: the dominant labels of the
\* messages in the order of their first occurrence
RECURSIVE FirstSeen(_)
FirstSeen(messages) ==
  IF messages = << >> THEN << >>
  ELSE LET before == FirstSeen(SubSeq(messages, 1, Len(messages) - 1))
           d == messages[Len(messages)].dominant
       IN  IF d \in Range(before) THEN before ELSE Append(before, d)

CountOf(messages, label) ==
  Cardinality({ i \in 1..Len(messages) : messages[i].dominant = label })

\* ChatStorage._update_dominant_emotion: max(emotion_counts,
\* key=emotion_counts.get), the first key of the highest count; the value
\* kept when there is no message
update_dominant_emotion(messages, current) ==
  IF messages = << >> THEN current
  ELSE LET keys == FirstSeen(messages)
           best == SetMin({ i \in 1..Len(keys) :
                     \A j \in 1..Len(keys) :
                       CountOf(messages, keys[i]) >= CountOf(messages, keys[j]) })
       IN  keys[best]

\* the message add_message builds
NewMessage(messages, speaker, inp, timestamp) ==
  [ id |-> NextMessageId(messages),
    speaker |-> speaker,
    text |-> inp.text,
    ts |-> timestamp,
    probs |-> inp.probs,
    dominant |-> Dominant(inp.probs),
    entropy |-> calculate_entropy(inp.probs),
    confidence |-> get_confidence_bucket(calculate_entropy(inp.probs)) ]

\* the variant that stamps every stored message with the time of the call
ChatWithMessage_Restamped(chat, speaker, inp, timestamp) ==
  LET message == NewMessage(chat.messages, speaker, inp, timestamp)
      stored == [ i \in 1..Len(chat.messages) |->
                    [ chat.messages[i] EXCEPT !.ts = timestamp ] ]
      messages == Append(stored, message)
      first_user == speaker = "user" /\ message.id = 1
  IN  [ metadata |->
          [ chat.metadata EXCEPT
              !.lastUpdatedAt = timestamp,
              !.messageCount = Len(messages),
              !.dominant_emotion = update_dominant_emotion(messages, @),
              !.snippet = IF first_user THEN Snippet(inp.text) ELSE @,
              !.title = IF first_user THEN generate_title(inp.text) ELSE @ ],
        messages |-> messages,
        emotionTimeline |-> AppendTimeline(chat.emotionTimeline, inp.probs) ]

\* the chat after add_message
ChatWithMessage(chat, speaker, inp, timestamp) ==
  LET message == NewMessage(chat.messages, speaker, inp, timestamp)
      messages == Append(chat.messages, message)
      first_user == speaker = "user" /\ message.id = 1
  IN  [ metadata |->
          [ chat.metadata EXCEPT
              !.lastUpdatedAt = timestamp,
              !.messageCount = Len(messages),
              !.dominant_emotion = update_dominant_emotion(messages, @),
              !.snippet = IF first_user THEN Snippet(inp.text) ELSE @,
              !.title = IF first_user THEN generate_title(inp.text) ELSE @ ],
        messages |-> messages,
        emotionTimeline |-> AppendTimeline(chat.emotionTimeline, inp.probs) ]

\* a mapping with key k set to value v
Put(map, k, v) ==
  [ x \in DOMAIN map \cup {k} |-> IF x = k THEN v ELSE map[x] ]

\* del map[k]
Del(map, k) == [ x \in DOMAIN map \ {k} |-> map[x] ]

\* the variant that leaves the list as it is
Remove_Nothing(list, x) == list

\* list.remove(x): the list without the first occurrence of x
Remove(list, x) ==
  LET p == SetMin({ i \in 1..Len(list) : list[i] = x })
  IN  SubSeq(list, 1, p - 1) \o SubSeq(list, p + 1, Len(list))

(***************************************************************************)
(* storage.py: get_emotion_summary.                                        *)
(***************************************************************************)
RECURSIVE Gcd(_, _)
Gcd(a, b) == IF b = 0 THEN a ELSE Gcd(b, a % b)

Lcm(a, b) == (a * b) \div Gcd(a, b)

\* the least common denominator of the messages' distributions
RECURSIVE CommonDen(_)
CommonDen(messages) ==
  IF messages = << >> THEN 1
  ELSE Lcm(Head(messages).probs.den, CommonDen(Tail(messages)))

\* the sum over the messages of label e's probability, over denominator cd
RECURSIVE EmotionSum(_, _, _)
EmotionSum(messages, e, cd) ==
  IF messages = << >> THEN 0
  ELSE LET p == Head(messages).probs
       IN  p.num[e] * (cd \div p.den) + EmotionSum(Tail(messages), e, cd)

RECURSIVE EntropySum(_)
EntropySum(messages) ==
  IF messages = << >> THEN 0
  ELSE Head(messages).entropy + EntropySum(Tail(messages))

\* the variant that leaves the sums undivided
AverageScores_Undivided(messages) ==
  LET cd == CommonDen(messages)
  IN  [ num |-> [ e \in DOMAIN messages[1].probs.num |->
                    EmotionSum(messages, e, cd) ],
        den |-> cd ]

\* scores = {emotion: emotion_sums[emotion] / total_messages}
AverageScores(messages) ==
  LET cd == CommonDen(messages)
  IN  [ num |-> [ e \in DOMAIN messages[1].probs.num |->
                    EmotionSum(messages, e, cd) ],
        den |-> cd * Len(messages) ]

\* confidence = 1.0 - avg_entropy, as the fraction num / den
SummaryConfidence(messages) ==
  [ num |-> 1000 * Len(messages) - EntropySum(messages),
    den |-> 1000 * Len(messages) ]

\* round(confidence, 2), in hundredths
Round2(c) == (200 * c.num + c.den) \div (2 * c.den)

\* the variant that names the second label whatever its score
generate_summary_text_AnySecond(dominant, scores, confidence) ==
  LET keys == DOMAIN scores.num
      first == Dominant(scores)
      rest == [ num |-> [ k \in keys \ {first} |-> scores.num[k] ],
                den |-> scores.den ]
      second == IF keys \ {first} = {} THEN "none" ELSE Dominant(rest)
  IN  [ wording |-> IF 10 * confidence.num > 7 * confidence.den THEN "strongly dominated by"
                    ELSE IF 10 * confidence.num > 4 * confidence.den THEN "shows"
                    ELSE "has mixed emotions with some",
        primary |-> dominant,
        occasional |-> IF second # dominant THEN second ELSE "none" ]

\* ChatStorage._generate_summary_text: the sentence, by its parts
generate_summary_text(dominant, scores, confidence) ==
  LET keys == DOMAIN scores.num
      \* sorted(scores.items(), key=lambda x: x[1], reverse=True)[:2]
      first == Dominant(scores)
      rest == [ num |-> [ k \in keys \ {first} |-> scores.num[k] ],
                den |-> scores.den ]
      second == IF keys \ {first} = {} THEN "none" ELSE Dominant(rest)
      secondary ==
        IF second # "none" /\ 10 * scores.num[second] > scores.den
        THEN second ELSE "none"
  IN  [ wording |-> IF 10 * confidence.num > 7 * confidence.den THEN "strongly dominated by"
                    ELSE IF 10 * confidence.num > 4 * confidence.den THEN "shows"
                    ELSE "has mixed emotions with some",
        primary |-> dominant,
        occasional |-> IF secondary # "none" /\ secondary # dominant
                       THEN secondary ELSE "none" ]

\* summary_text = None
NoSummaryText == [ wording |-> "None", primary |-> "none",
                   occasional |-> "none" ]

\* the variant that builds the sentence as for a chat with messages
NoMessagesYet_Generated ==
  generate_summary_text("neutral", Flat(1, 10), [ num |-> 0, den |-> 1 ])

\* "No messages yet."
NoMessagesYet == [ wording |-> "No messages yet.", primary |-> "none",
                   occasional |-> "none" ]

\* the variant that reports the majority vote kept in the metadata
Summary_MajorityVote(chat_id, chat, include_summary_text) ==
  IF chat.messages = << >>
  THEN [ chatId |-> chat_id,
         id |-> chat_id,
         dominant_emotion |-> "neutral",
         scores |-> Flat(1, 10),
         confidence |-> 0,
         summary_text |-> IF include_summary_text THEN NoMessagesYet ELSE NoSummaryText ]
  ELSE LET scores == AverageScores(chat.messages)
           dominant == chat.metadata.dominant_emotion
           confidence == SummaryConfidence(chat.messages)
       IN  [ chatId |-> chat_id,
             id |-> chat_id,
             dominant_emotion |-> dominant,
             scores |-> scores,
             confidence |-> Round2(confidence),
             summary_text |->
               IF include_summary_text
               THEN generate_summary_text(dominant, scores, confidence)
               ELSE NoSummaryText ]

\* the summary of a stored chat.  The wall-clock stamp generatedAt of the
\* result is left out: nothing in the program reads it.
Summary(chat_id, chat, include_summary_text) ==
  IF chat.messages = << >>
  THEN [ chatId |-> chat_id,
         id |-> chat_id,
         dominant_emotion |-> "neutral",
         scores |-> Flat(1, 10),
         confidence |-> 0,
         summary_text |-> IF include_summary_text THEN NoMessagesYet ELSE NoSummaryText ]
  ELSE LET scores == AverageScores(chat.messages)
           dominant == Dominant(scores)
           confidence == SummaryConfidence(chat.messages)
       IN  [ chatId |-> chat_id,
             id |-> chat_id,
             dominant_emotion |-> dominant,
             scores |-> scores,
             confidence |-> Round2(confidence),
             summary_text |->
               IF include_summary_text
               THEN generate_summary_text(dominant, scores, confidence)
               ELSE NoSummaryText ]

(***************************************************************************)
(* storage.py: the operations of ChatStorage, one action each.             *)
(***************************************************************************)
\* get_chat(chat_id): self.chats.get(chat_id)
GetChat(chat_id) ==
  /\ ret' = [ op |-> "get_chat", chat_id |-> chat_id,
              result |-> IF chat_id \in DOMAIN chats THEN chats[chat_id]
                         ELSE "None" ]
  /\ UNCHANGED << chats, user_chats, emotion_cache, now, nextId, classifyVars,
                  req >>

\* create_chat(user_id, initial_message)
CreateChat(user_id, initial_message) ==
  /\ nextId <= MaxChats
  /\ now < MaxClock
  /\ LET chat_id == nextId
         created_at == now + 1
     IN  /\ chats' = Put(chats, chat_id,
                         NewChat(chat_id, user_id, initial_message, created_at))
         /\ user_chats' = [ user_chats EXCEPT ![user_id] = Append(@, chat_id) ]
         /\ ret' = [ op |-> "create_chat", chat_id |-> chat_id,
                     result |-> << chat_id, created_at >> ]
  /\ now' = now + 1
  /\ nextId' = nextId + 1
  /\ UNCHANGED << emotion_cache, classifyVars, req >>

\* the variant that starts a chat when the id is not stored
AddMessage_CreatesChat(chat_id, speaker, inp) ==
  /\ now < MaxClock
  /\ LET chat == IF chat_id \in DOMAIN chats THEN chats[chat_id]
                 ELSE NewChat(chat_id, "u1", << >>, now + 1)
     IN  /\ Len(chat.messages) < MaxMsgs
         /\ chats' = Put(chats, chat_id,
                         ChatWithMessage(chat, speaker, inp, now + 1))
  /\ now' = now + 1
  /\ ret' = [ op |-> "add_message", chat_id |-> chat_id, result |-> "None" ]
  /\ UNCHANGED << user_chats, emotion_cache, nextId, classifyVars, req >>

\* add_message(chat_id, speaker, text, probs, dominant, entropy, confidence)
AddMessage(chat_id, speaker, inp) ==
  /\ now < MaxClock
  /\ IF chat_id \notin DOMAIN chats
     THEN /\ ret' = [ op |-> "add_message", chat_id |-> chat_id,
                      result |-> "ValueError" ]
          /\ UNCHANGED << chats, now >>
     ELSE /\ Len(chats[chat_id].messages) < MaxMsgs
          /\ chats' = [ chats EXCEPT
                          ![chat_id] = ChatWithMessage(@, speaker, inp, now + 1) ]
          /\ now' = now + 1
          /\ ret' = [ op |-> "add_message", chat_id |-> chat_id,
                      result |-> "None" ]
  /\ UNCHANGED << user_chats, emotion_cache, nextId, classifyVars, req >>

\* update_chat_title(chat_id, title)
UpdateChatTitle(chat_id, title) ==
  /\ now < MaxClock
  /\ IF chat_id \notin DOMAIN chats
     THEN /\ ret' = [ op |-> "update_chat_title", chat_id |-> chat_id,
                      result |-> "ValueError" ]
          /\ UNCHANGED << chats, now >>
     ELSE /\ chats' = [ chats EXCEPT
                          ![chat_id].metadata.title = title,
                          ![chat_id].metadata.lastUpdatedAt = now + 1 ]
          /\ now' = now + 1
          /\ ret' = [ op |-> "update_chat_title", chat_id |-> chat_id,
                      result |-> "None" ]
  /\ UNCHANGED << user_chats, emotion_cache, nextId, classifyVars, req >>

\* the variant that does not verify the ownership
DeleteChat_AnyUser(chat_id, user_id) ==
  /\ IF chat_id \notin DOMAIN chats
     THEN /\ ret' = [ op |-> "delete_chat", chat_id |-> chat_id,
                      user_id |-> user_id, result |-> FALSE ]
          /\ UNCHANGED << chats, user_chats, emotion_cache >>
     ELSE /\ chats' = Del(chats, chat_id)
          /\ user_chats' = [ user_chats EXCEPT
                            ![chats[chat_id].metadata.userId] = Remove(@, chat_id) ]
          /\ emotion_cache' = Del(emotion_cache, chat_id)
          /\ ret' = [ op |-> "delete_chat", chat_id |-> chat_id,
                      user_id |-> user_id, result |-> TRUE ]
  /\ UNCHANGED << now, nextId, classifyVars, req >>

\* main.py, delete_chat_endpoint: the response to what delete_chat returned
delete_chat_endpoint(chatId, success) ==
  IF ~success
  THEN [ status_code |-> 404,
         detail |-> << "Chat ", chatId, " not found or unauthorized" >> ]
  ELSE [ status_code |-> 200, status |-> "deleted", chatId |-> chatId ]

\* delete_chat(chat_id, user_id)
DeleteChat(chat_id, user_id) ==
  /\ IF chat_id \notin DOMAIN chats
     THEN /\ ret' = [ op |-> "delete_chat", chat_id |-> chat_id,
                      user_id |-> user_id, result |-> FALSE ]
          /\ UNCHANGED << chats, user_chats, emotion_cache >>
     ELSE IF chats[chat_id].metadata.userId # user_id
     THEN /\ ret' = [ op |-> "delete_chat", chat_id |-> chat_id,
                      user_id |-> user_id, result |-> FALSE ]
          /\ UNCHANGED << chats, user_chats, emotion_cache >>
     ELSE /\ chats' = Del(chats, chat_id)
          /\ user_chats' = [ user_chats EXCEPT ![user_id] = Remove(@, chat_id) ]
          /\ emotion_cache' = Del(emotion_cache, chat_id)
          /\ ret' = [ op |-> "delete_chat", chat_id |-> chat_id,
                      user_id |-> user_id, result |-> TRUE ]
  /\ UNCHANGED << now, nextId, classifyVars, req >>

\* the variant that writes the dominant emotion it found back to the chat
GetEmotionSummary_WritesMetadata(chat_id, include_summary_text) ==
  /\ IF chat_id \notin DOMAIN chats
     THEN /\ ret' = [ op |-> "get_emotion_summary", chat_id |-> chat_id,
                      include_summary_text |-> include_summary_text,
                      result |-> "None" ]
          /\ UNCHANGED << chats, emotion_cache >>
     ELSE LET result == Summary(chat_id, chats[chat_id], include_summary_text)
          IN  /\ ret' = [ op |-> "get_emotion_summary", chat_id |-> chat_id,
                          include_summary_text |-> include_summary_text,
                          result |-> result ]
              /\ chats' = [ chats EXCEPT
                              ![chat_id].metadata.dominant_emotion =
                                result.dominant_emotion ]
              /\ emotion_cache' =
                   IF chats[chat_id].messages = << >> THEN emotion_cache
                   ELSE Put(emotion_cache, chat_id, result)
  /\ UNCHANGED << user_chats, now, nextId, classifyVars, req >>

\* get_emotion_summary(chat_id, include_summary_text)
GetEmotionSummary(chat_id, include_summary_text) ==
  /\ IF chat_id \notin DOMAIN chats
     THEN /\ ret' = [ op |-> "get_emotion_summary", chat_id |-> chat_id,
                      include_summary_text |-> include_summary_text,
                      result |-> "None" ]
          /\ UNCHANGED emotion_cache
     ELSE LET result == Summary(chat_id, chats[chat_id], include_summary_text)
          IN  /\ ret' = [ op |-> "get_emotion_summary", chat_id |-> chat_id,
                          include_summary_text |-> include_summary_text,
                          result |-> result ]
              /\ emotion_cache' =
                   IF chats[chat_id].messages = << >> THEN emotion_cache
                   ELSE Put(emotion_cache, chat_id, result)
  /\ UNCHANGED << chats, user_chats, now, nextId, classifyVars, req >>

Init ==
  /\ ClassifyIdle
  /\ StoreInit
  /\ RequestsIdle

Next ==
  \/ \E user_id \in Users, initial_message \in { << >>, <<"a","m">> } :
       CreateChat(user_id, initial_message)
  \/ \E chat_id \in ChatIds : GetChat(chat_id)
  \/ \E chat_id \in ChatIds, speaker \in Speakers, inp \in StoreInputs :
       AddMessage(chat_id, speaker, inp)
  \/ \E chat_id \in ChatIds, title \in Titles : UpdateChatTitle(chat_id, title)
  \/ \E chat_id \in ChatIds, user_id \in Users : DeleteChat(chat_id, user_id)
  \/ \E chat_id \in ChatIds, include_summary_text \in BOOLEAN :
       GetEmotionSummary(chat_id, include_summary_text)

Spec == Init /\ [][Next]_vars

(***************************************************************************)
(* main.py: add_message_to_chat, run by several requests at once on the    *)
(* same chat (the endpoint is a plain def, which the server runs in a      *)
(* thread pool), with storage.py's add_message inlined.  ChatStorage takes *)
(* no lock, so the requests interleave between statements.                 *)
(***************************************************************************)
\* the chat the requests write to
SharedChat == 1

InitConc ==
  /\ ClassifyIdle
  /\ chats = Put(<< >>, SharedChat, NewChat(SharedChat, "u1", << >>, 1))
  /\ user_chats = [ u \in Users |-> IF u = "u1" THEN << SharedChat >> ELSE << >> ]
  /\ emotion_cache = << >>
  /\ now = 1
  /\ nextId = 2
  /\ ret = [ op |-> "create_chat", chat_id |-> SharedChat,
             result |-> << SharedChat, 1 >> ]
  /\ req \in [ Requests ->
                 { [ pc |-> "start", speaker |-> s, inp |-> i, message_id |-> 0,
                     timestamp |-> 0, position |-> 0, messageId |-> 0 ] :
                     s \in Speakers, i \in StoreInputs } ]

\* main.py 525-533: the chat exists; the text is scored
ReqScore(r) ==
  /\ req[r].pc = "start"
  /\ SharedChat \in DOMAIN chats
  /\ req' = [ req EXCEPT ![r].pc = "add_message" ]
  /\ UNCHANGED << storeVars, classifyVars >>

\* storage.py 162-167: message_id = len(chat["messages"]) + 1, and the
\* timestamp
ReqReadId(r) ==
  /\ req[r].pc = "add_message"
  /\ SharedChat \in DOMAIN chats
  /\ req' = [ req EXCEPT
                ![r].pc = "append",
                ![r].message_id = NextMessageId(chats[SharedChat].messages),
                ![r].timestamp = now + 1 ]
  /\ now' = now + 1
  /\ UNCHANGED << chats, user_chats, emotion_cache, nextId, ret, classifyVars >>

\* storage.py 169-180: chat["messages"].append(message)
ReqAppend(r) ==
  /\ req[r].pc = "append"
  /\ LET message ==
           [ NewMessage(chats[SharedChat].messages, req[r].speaker, req[r].inp,
                        req[r].timestamp)
               EXCEPT !.id = req[r].message_id ]
     IN  /\ chats' = [ chats EXCEPT ![SharedChat].messages = Append(@, message) ]
         /\ req' = [ req EXCEPT
                       ![r].pc = "metadata",
                       ![r].position = Len(chats[SharedChat].messages) + 1 ]
  /\ UNCHANGED << user_chats, emotion_cache, now, nextId, ret, classifyVars >>

\* storage.py 181-195: lastUpdatedAt, messageCount, the timeline, the
\* dominant emotion, and the snippet and title on the first user message
ReqMetadata(r) ==
  /\ req[r].pc = "metadata"
  /\ LET chat == chats[SharedChat]
         first_user == req[r].speaker = "user" /\ req[r].message_id = 1
     IN  chats' =
           [ chats EXCEPT
               ![SharedChat].metadata =
                 [ @ EXCEPT
                     !.lastUpdatedAt = req[r].timestamp,
                     !.messageCount = Len(chat.messages),
                     !.dominant_emotion = update_dominant_emotion(chat.messages, @),
                     !.snippet = IF first_user THEN Snippet(req[r].inp.text) ELSE @,
                     !.title = IF first_user THEN generate_title(req[r].inp.text)
                               ELSE @ ],
               ![SharedChat].emotionTimeline = AppendTimeline(@, req[r].inp.probs) ]
  /\ req' = [ req EXCEPT ![r].pc = "report" ]
  /\ UNCHANGED << user_chats, emotion_cache, now, nextId, ret, classifyVars >>

\* main.py 546-555: message_id = len(chat["messages"]), returned as messageId
ReqReport(r) ==
  /\ req[r].pc = "report"
  /\ req' = [ req EXCEPT
                ![r].pc = "done",
                ![r].messageId = Len(chats[SharedChat].messages) ]
  /\ UNCHANGED << storeVars, classifyVars >>

NextConc ==
  \E r \in Requests :
    \/ ReqScore(r)
    \/ ReqReadId(r)
    \/ ReqAppend(r)
    \/ ReqMetadata(r)
    \/ ReqReport(r)

SpecConc == InitConc /\ [][NextConc]_vars


(***************************************************************************)
(* storage.py: get_emotion_summary on a chat whose messages were scored by *)
(* classify_emotion.  The chat is built by create_chat and a run of        *)
(* add_message calls; then the summary is asked for, the title is changed  *)
(* and the chat is read, in any order, and no message is added.            *)
(***************************************************************************)
\* the chat of a summary run takes at most MaxSummaryMsgs messages
MaxSummaryMsgs == 3

\* texts with the distribution classify_emotion returns for them: a
\* sarcastic text, a text with a sadness emoji, and a short and a long
\* plain text scored while the classifier is unavailable, and a text the
\* classifier has answered
SummaryInputs ==
  StoreInputs \cup
  { [ text |-> <<"a","m">>, probs |-> Flat(1, 10) ],
    [ text |-> <<"s","e","e"," ","y","o","u"," ","a","t"," ","3">>,
      probs |-> AmbiguousDist ],
    [ text |-> <<"n","o">>, probs |-> JoyAnswer ] }

\* the chat after create_chat(user_id) and one add_message per input
RECURSIVE ChatAfter(_, _)
ChatAfter(user_id, inputs) ==
  IF inputs = << >> THEN NewChat(SharedChat, user_id, << >>, 1)
  ELSE ChatWithMessage(ChatAfter(user_id, SubSeq(inputs, 1, Len(inputs) - 1)),
                       "user", inputs[Len(inputs)], Len(inputs) + 1)

InitSummary ==
  /\ ClassifyIdle
  /\ RequestsIdle
  /\ \E inputs \in SeqsUpTo(SummaryInputs, MaxSummaryMsgs) :
       /\ chats = Put(<< >>, SharedChat, ChatAfter("u1", inputs))
       /\ now = Len(inputs) + 1
       /\ ret = IF inputs = << >>
                THEN [ op |-> "create_chat", chat_id |-> SharedChat,
                       result |-> << SharedChat, 1 >> ]
                ELSE [ op |-> "add_message", chat_id |-> SharedChat,
                       result |-> "None" ]
  /\ user_chats = [ u \in Users |-> IF u = "u1" THEN << SharedChat >> ELSE << >> ]
  /\ emotion_cache = << >>
  /\ nextId = SharedChat + 1

NextSummary ==
  \/ \E chat_id \in ChatIds, include_summary_text \in BOOLEAN :
       GetEmotionSummary(chat_id, include_summary_text)
  \/ \E chat_id \in ChatIds, title \in Titles : UpdateChatTitle(chat_id, title)
  \/ \E chat_id \in ChatIds : GetChat(chat_id)

SpecSummary == InitSummary /\ [][NextSummary]_vars

(***************************************************************************)
(* storage.py: get_user_chats, and a client that pages through a user's    *)
(* chats: it starts without a cursor and passes the nextCursor of each     *)
(* page to the next request, while nothing else runs.                      *)
(***************************************************************************)
\* at most MaxPagedChats chats are stored when the paging starts
MaxPagedChats == 3
\* the page sizes are 1..MaxLimit
MaxLimit == 3

\* cursor = None
NoCursor == << >>

\* f"cursor_{end_idx}", as the parts cursor.split("_") gives
CursorAt(end_idx) == << "cursor", end_idx >>

\* int(cursor.split("_")[1]), and 0 for a cursor of fewer than two parts
CursorIndex(cursor) == IF Len(cursor) < 2 THEN 0 ELSE cursor[2]

\* sorted(chat_ids, key=lastUpdatedAt, reverse=True), a stable sort: the
\* place of an id is behind the ids updated later and behind the ids
\* updated at the same time that stand before it in chat_ids
SortByLastUpdated(chat_ids) ==
  LET key(j) == chats[chat_ids[j]].metadata.lastUpdatedAt
      place(j) == 1 + Cardinality({ k \in 1..Len(chat_ids) :
                                     \/ key(k) > key(j)
                                     \/ key(k) = key(j) /\ k < j })
  IN  [ i \in 1..Len(chat_ids) |->
          chat_ids[CHOOSE j \in 1..Len(chat_ids) : place(j) = i] ]

\* ChatHistoryItem(...) of a stored chat
HistoryItem(cid) ==
  LET metadata == chats[cid].metadata
  IN  [ chatId |-> cid,
        id |-> cid,
        title |-> metadata.title,
        createdAt |-> metadata.createdAt,
        lastUpdatedAt |-> metadata.lastUpdatedAt,
        snippet |-> metadata.snippet,
        dominant_emotion |-> metadata.dominant_emotion,
        messageCount |-> metadata.messageCount ]

\* the ids sorted_ids[start_idx:end_idx]
Slice(list, start_idx, end_idx) ==
  SubSeq(list, start_idx + 1, IF end_idx < Len(list) THEN end_idx ELSE Len(list))

\* the variant that hands out a cursor also when the page ends the list
get_user_chats_CursorAtEnd(user_id, limit, cursor) ==
  LET chat_ids == user_chats[user_id]
      total == Len(chat_ids)
      sorted_ids == SortByLastUpdated(chat_ids)
      start_idx == IF cursor # NoCursor THEN CursorIndex(cursor) ELSE 0
      end_idx == start_idx + limit
      page_ids == Slice(sorted_ids, start_idx, end_idx)
  IN  [ history_items |-> [ i \in 1..Len(page_ids) |-> HistoryItem(page_ids[i]) ],
        next_cursor |-> IF end_idx <= total THEN CursorAt(end_idx) ELSE NoCursor,
        total |-> total ]

\* get_user_chats(user_id, limit, cursor)
get_user_chats(user_id, limit, cursor) ==
  LET chat_ids == user_chats[user_id]
      total == Len(chat_ids)
      sorted_ids == SortByLastUpdated(chat_ids)
      start_idx == IF cursor # NoCursor THEN CursorIndex(cursor) ELSE 0
      end_idx == start_idx + limit
      page_ids == Slice(sorted_ids, start_idx, end_idx)
  IN  [ history_items |-> [ i \in 1..Len(page_ids) |-> HistoryItem(page_ids[i]) ],
        next_cursor |-> IF end_idx < total THEN CursorAt(end_idx) ELSE NoCursor,
        total |-> total ]

\* the stored chats after create_chat for each of the owners in turn and,
\* when touched is not 0, update_chat_title on chat touched
PagedChats(owners, touched) ==
  [ c \in 1..Len(owners) |->
      LET chat == NewChat(c, owners[c], << >>, c)
      IN  IF c = touched
          THEN [ chat EXCEPT !.metadata.title = <<"T">>,
                             !.metadata.lastUpdatedAt = Len(owners) + 1 ]
          ELSE chat ]

\* the ids among 1..n of the chats of user u, in the order of their creation
RECURSIVE OwnedBy(_, _, _)
OwnedBy(owners, u, n) ==
  IF n = 0 THEN << >>
  ELSE IF owners[n] = u THEN Append(OwnedBy(owners, u, n - 1), n)
  ELSE OwnedBy(owners, u, n - 1)

InitPages ==
  /\ ClassifyIdle
  /\ \E owners \in SeqsUpTo(Users, MaxPagedChats) :
       \E touched \in 0..Len(owners) :
         /\ chats = PagedChats(owners, touched)
         /\ user_chats = [ u \in Users |-> OwnedBy(owners, u, Len(owners)) ]
         /\ now = Len(owners) + (IF touched = 0 THEN 0 ELSE 1)
         /\ nextId = Len(owners) + 1
         /\ ret = IF touched # 0
                  THEN [ op |-> "update_chat_title", chat_id |-> touched,
                         result |-> "None" ]
                  ELSE IF owners # << >>
                  THEN [ op |-> "create_chat", chat_id |-> Len(owners),
                         result |-> << Len(owners), Len(owners) >> ]
                  ELSE [ op |-> "init" ]
  /\ emotion_cache = << >>
  /\ req \in [ { "r1" } ->
                 { [ pc |-> "page", user_id |-> u, limit |-> l,
                     cursor |-> NoCursor, seen |-> << >>, requests |-> 0,
                     totals |-> {} ] : u \in Users, l \in 1..MaxLimit } ]

\* one request of the client: GET /api/user/{userId}/chats with the cursor
\* of the page before
PageRequest(r) ==
  /\ req[r].pc = "page"
  /\ LET page == get_user_chats(req[r].user_id, req[r].limit, req[r].cursor)
         ids == [ i \in 1..Len(page.history_items) |-> page.history_items[i].chatId ]
     IN  req' = [ req EXCEPT
                    ![r].seen = @ \o ids,
                    ![r].requests = @ + 1,
                    ![r].totals = @ \cup { page.total },
                    ![r].cursor = page.next_cursor,
                    ![r].pc = IF page.next_cursor = NoCursor THEN "done"
                              ELSE "page" ]
  /\ UNCHANGED << storeVars, classifyVars >>

NextPages == \E r \in DOMAIN req : PageRequest(r)

\* the client goes on asking for as long as it was given a cursor
SpecPages == InitPages /\ [][NextPages]_vars /\ WF_vars(NextPages)

\* the same client while add-message and title requests on the stored chats
\* are served between its page requests
NextPagesBusy ==
  \/ \E r \in DOMAIN req : PageRequest(r)
  \/ \E chat_id \in ChatIds, speaker \in Speakers, inp \in StoreInputs :
       AddMessage(chat_id, speaker, inp)
  \/ \E chat_id \in ChatIds, title \in Titles : UpdateChatTitle(chat_id, title)

SpecPagesBusy == InitPages /\ [][NextPagesBusy]_vars
(***************************************************************************)
(* main.py: apply_smoothing and detect_peaks, as analyze_conversation      *)
(* calls them: the intensities are smoothed and the peaks are looked for   *)
(* in the smoothed values.  A value is an exact fraction in lowest terms,  *)
(* [num |-> Int, den |-> Int]; a list index counts from 0 as in the code.  *)
(***************************************************************************)
\* a list of intensities has at most MaxValues values
MaxValues == 4
\* the smoothing windows are -1..MaxWindow
MaxWindow == 3

\* the fraction n / d in lowest terms
Frac(n, d) == LET g == Gcd(n, d) IN [ num |-> n \div g, den |-> d \div g ]

\* a + b
FracPlus(a, b) == Frac(a.num * b.den + b.num * a.den, a.den * b.den)

\* a > b
FracGreater(a, b) == a.num * b.den > b.num * a.den

\* sum(values)
RECURSIVE SumValues(_)
SumValues(values) ==
  IF values = << >> THEN Frac(0, 1)
  ELSE FracPlus(Head(values), SumValues(Tail(values)))

Max2(a, b) == IF a >= b THEN a ELSE b

Min2(a, b) == IF a <= b THEN a ELSE b

\* the variant that averages the window that ends at the index
apply_smoothing_Trailing(values, window) ==
  IF window < 1 THEN values
  ELSE [ k \in 1..Len(values) |->
           LET i == k - 1
               start == Max2(0, i - window + 1)
               end == i + 1
               total == SumValues(SubSeq(values, start + 1, end))
           IN  Frac(total.num, total.den * (end - start)) ]

\* apply_smoothing(values, window)
apply_smoothing(values, window) ==
  IF window < 1 THEN values
  ELSE [ k \in 1..Len(values) |->
           LET i == k - 1
               start == Max2(0, i - window \div 2)
               end == Min2(Len(values), i + window \div 2 + 1)
               \* sum(values[start:end]) / (end - start)
               total == SumValues(SubSeq(values, start + 1, end))
           IN  Frac(total.num, total.den * (end - start)) ]

\* the loop of detect_peaks from index i on: for i in range(1, len(values) - 1)
RECURSIVE InteriorPeaks(_, _, _)
InteriorPeaks(values, threshold, i) ==
  IF i >= Len(values) - 1 THEN << >>
  ELSE LET here == IF /\ FracGreater(values[i + 1], threshold)
                      /\ FracGreater(values[i + 1], values[i])
                      /\ FracGreater(values[i + 1], values[i + 2])
                   THEN << i >> ELSE << >>
       IN  here \o InteriorPeaks(values, threshold, i + 1)

\* the variant without the final value
detect_peaks_InteriorOnly(values, threshold) ==
  InteriorPeaks(values, threshold, 1)

\* detect_peaks(values, threshold)
detect_peaks(values, threshold) ==
  LET peaks == InteriorPeaks(values, threshold, 1)
  IN  IF Len(values) > 0 /\ FracGreater(values[Len(values)], threshold)
      THEN Append(peaks, Len(values) - 1)
      ELSE peaks

\* the intensities and thresholds the functions are called with
Intensities == { Frac(1, 10), Frac(3, 10), Frac(7, 10), Frac(9, 10) }

Thresholds == { Frac(7, 10), Frac(3, 10) }

InitAnalyze ==
  /\ ClassifyIdle
  /\ StoreInit
  /\ req \in [ { "r1" } ->
                 { [ pc |-> "smooth", values |-> v, window |-> w,
                     threshold |-> th, smoothed |-> << >>, peaks |-> << >> ] :
                     v \in SeqsUpTo(Intensities, MaxValues),
                     w \in (-1)..MaxWindow, th \in Thresholds } ]

\* main.py 247: smoothed = apply_smoothing(raw_intensities, window)
ApplySmoothing(r) ==
  /\ req[r].pc = "smooth"
  /\ req' = [ req EXCEPT
                ![r].smoothed = apply_smoothing(req[r].values, req[r].window),
                ![r].pc = "peaks" ]
  /\ UNCHANGED << storeVars, classifyVars >>

\* main.py 250: peaks = detect_peaks(smoothed)
DetectPeaks(r) ==
  /\ req[r].pc = "peaks"
  /\ req' = [ req EXCEPT
                ![r].peaks = detect_peaks(req[r].smoothed, req[r].threshold),
                ![r].pc = "done" ]
  /\ UNCHANGED << storeVars, classifyVars >>

NextAnalyze ==
  \E r \in DOMAIN req :
    \/ ApplySmoothing(r)
    \/ DetectPeaks(r)

SpecAnalyze == InitAnalyze /\ [][NextAnalyze]_vars
(***************************************************************************)
(* model_adapter.py: step 4 of classify_emotion on its own, from the       *)
(* classifier's response on: the response is parsed, then the anti-neutral *)
(* enforcement is applied to the parsed distribution.                      *)
(***************************************************************************)
\* the segments the responses handed to the parser are made of
ParserSegments ==
  Segments \cup
    { <<"happy", ":", "0.9">>,
      <<"fear", ":", "1.5">>,
      <<"neutral", ":", "-0.2">>,
      <<" ", "sadness", ":", " ", "0.3">> }

InitParse ==
  /\ ClassifyIdle
  /\ StoreInit
  /\ req \in [ { "r1" } ->
                 { [ pc |-> "parse", segments |-> ss, response_text |-> Join(ss),
                     parsed |-> NoResult, emotion_probs |-> NoResult ] :
                     ss \in SeqsUpTo(ParserSegments, MaxPairs) } ]

\* model_adapter.py 223: emotion_probs = _parse_emotion_response(response_text)
ParseResponse(r) ==
  /\ req[r].pc = "parse"
  /\ req' = [ req EXCEPT
                ![r].parsed = parse_emotion_response(req[r].response_text),
                ![r].pc = "enforce" ]
  /\ UNCHANGED << storeVars, classifyVars >>

\* model_adapter.py 225-240: the anti-neutral enforcement, and the return
EnforceAntiNeutral(r) ==
  /\ req[r].pc = "enforce"
  /\ req' = [ req EXCEPT
                ![r].emotion_probs = AntiNeutral(req[r].parsed),
                ![r].pc = "done" ]
  /\ UNCHANGED << storeVars, classifyVars >>

NextParse ==
  \E r \in DOMAIN req :
    \/ ParseResponse(r)
    \/ EnforceAntiNeutral(r)

SpecParse == InitParse /\ [][NextParse]_vars
(***************************************************************************)
(* The claims.                                                             *)
(***************************************************************************)
\* the distribution d gives every label e the probability hundredths[e] / 100
IsDist(d, hundredths) ==
  /\ DOMAIN d.num = Labels
  /\ \A e \in Labels : 100 * d.num[e] = hundredths[e] * d.den

\* some keyword of emotion e stands in the lower-cased text at the start of
\* a word: at the start of the text or after a character that is no word
\* character
KeywordAtWordStart(e) ==
  LET t == Lower(text)
  IN  \E i \in 1..Len(t) :
        /\ i = 1 \/ ~IsWordChar(t[i - 1])
        /\ \E kw \in EMOTION_KEYWORDS[e] : StartsAt(t, i, kw)

\* some keyword of emotion e stands in the lower-cased text as a whole word
KeywordAsWholeWord(e) ==
  LET t == Lower(text)
  IN  \E i \in 1..Len(t) :
        /\ i = 1 \/ ~IsWordChar(t[i - 1])
        /\ \E kw \in EMOTION_KEYWORDS[e] :
              /\ StartsAt(t, i, kw)
              /\ i + Len(kw) > Len(t) \/ ~IsWordChar(t[i + Len(kw)])

\* some keyword of emotion e stands somewhere in the lower-cased text
KeywordAnywhere(e) ==
  \E kw \in EMOTION_KEYWORDS[e] : Contains(Lower(text), kw)

KeywordEmotions == DOMAIN EMOTION_KEYWORDS

NoEmojiInText ==
  \A k \in 1..Len(text), p \in 1..Len(EMOTION_EMOJIS) :
    text[k] \notin EMOTION_EMOJIS[p].emojis

\* C1: every mapping classify_emotion returns has exactly the 10 labels as
\* keys and values that sum to 1.0 within 0.01, on each return path.
C1_DistributionSumsToOne ==
  pc = "done" =>
    /\ DOMAIN emotion_probs.num = Labels
    /\ 100 * (SumNum(emotion_probs) - emotion_probs.den) <= emotion_probs.den
    /\ 100 * (emotion_probs.den - SumNum(emotion_probs)) <= emotion_probs.den

\* C2 as stated: whenever a keyword of emotion E matches in the text, the
\* returned distribution has E as its dominant label with probability at
\* least 0.5, whatever else the text contains.
C2_AnyMatchedKeywordIsDominant ==
  pc = "done" =>
    \A e \in KeywordEmotions :
      KeywordAtWordStart(e) =>
        /\ Dominant(emotion_probs) = e
        /\ 2 * emotion_probs.num[e] >= emotion_probs.den

\* C2 as amended: whenever some keyword matches, the dominant label is the
\* emotion that comes first in the order disgust, anger, sadness, fear,
\* surprise, joy, stress, tension, anticipation among those with a matching
\* keyword, with probability at least 0.5, and the classifier is not asked.
C2_FirstMatchedKeywordIsDominant ==
  LET order == << "disgust", "anger", "sadness", "fear", "surprise", "joy",
                  "stress", "tension", "anticipation" >>
  IN  pc = "done" =>
        \A i \in 1..Len(order) :
          (KeywordAtWordStart(order[i])
             /\ \A j \in 1..(i - 1) : ~KeywordAtWordStart(order[j]))
          => /\ Dominant(emotion_probs) = order[i]
             /\ 2 * emotion_probs.num[order[i]] >= emotion_probs.den
             /\ apiCalls = 0

\* C2's case: keywords of two emotions match and the call has returned
C2_Witness ==
  /\ pc = "done"
  /\ KeywordAtWordStart("anger")
  /\ KeywordAtWordStart("disgust")
  /\ Dominant(emotion_probs) = "disgust"

\* C3 as stated: a text in which no keyword stands as a whole word (and no
\* emoji) gives no keyword match: the detector reports no emotion.
C3_WholeWordMatchOnly ==
  (pc # "start" /\ NoEmojiInText
     /\ \A e \in KeywordEmotions : ~KeywordAsWholeWord(e))
  => signal_type \notin Labels

\* C3 as amended: a keyword matches exactly where it starts at a word
\* boundary.  A text in which every keyword occurrence lies inside a word,
\* after a word character, gives no keyword match; a keyword that begins a
\* longer word does match.
C3_WordStartMatch ==
  pc # "start" =>
    /\ (NoEmojiInText /\ \A e \in KeywordEmotions : ~KeywordAtWordStart(e))
         => signal_type \notin Labels
    /\ (\E e \in KeywordEmotions : KeywordAtWordStart(e))
         => has_signal /\ signal_type \in KeywordEmotions
                       /\ KeywordAtWordStart(signal_type)

\* C3's case: a keyword occurs in the text, only inside a word, and the
\* detector has reported no emotion
C3_Witness ==
  /\ pc # "start"
  /\ KeywordAnywhere("anger")
  /\ \A e \in KeywordEmotions : ~KeywordAtWordStart(e)
  /\ signal_type = "no_signal"

\* C4: when the classifier call raises, the call still returns: the flat
\* 0.1-per-label distribution if the stripped text is shorter than 10
\* characters and holds neither "?" nor "!", and else the ambiguous
\* distribution (neutral 0.16; stress, tension, disgust 0.08; others 0.10).
C4_FallbackAfterFailure ==
  LET short == /\ Len(Strip(text)) < 10
               /\ "?" \notin Range(text)
               /\ "!" \notin Range(text)
      flat == [ e \in Labels |-> 10 ]
      ambiguous == [ e \in Labels |->
                       IF e = "neutral" THEN 16
                       ELSE IF e \in {"stress", "tension", "disgust"} THEN 8
                       ELSE 10 ]
  IN  apiOutcome = "error" =>
        /\ pc \in { "step5", "done" }
        /\ pc = "step5" => ENABLED Fallback
        /\ pc = "done" =>
             IsDist(emotion_probs, IF short THEN flat ELSE ambiguous)

\* C4's case: the classifier raised and the call returned the flat
\* distribution
C4_Witness ==
  /\ pc = "done"
  /\ apiOutcome = "error"
  /\ path = "short"
  /\ Len(text) > 0

\* C5: one call asks the generation capability at most once, and not at all
\* when the detector named an emotion or a sarcasm pattern matched; the
\* stages run in the order detector, sarcasm check, classifier, fallback.
C5_StageOrderAndSingleCall ==
  LET order == << "detector", "sarcasm", "classifier", "fallback" >>
  IN  /\ apiCalls <= 1
      /\ apiCalls = Cardinality({ i \in 1..Len(stages) : stages[i] = "classifier" })
      /\ Len(stages) <= Len(order)
      /\ stages = SubSeq(order, 1, Len(stages))
      /\ (pc # "start" /\ has_signal /\ signal_type \in Labels) => apiCalls = 0
      /\ (pc # "start" /\ SarcasmMatches(text)) => apiCalls = 0

\* C5's case: the classifier was asked once, raised, and the fallback ran
C5_Witness ==
  /\ pc = "done"
  /\ apiCalls = 1
  /\ apiOutcome = "error"
  /\ stages = << "detector", "sarcasm", "classifier", "fallback" >>

\* C6: after the detector returned "emphasis_detected" that value is never
\* used as an emotion: the returned mapping has the 10 labels as its keys,
\* the keyword distribution is not built, and the call goes on to the
\* sarcasm check, the classifier and the fallback as it does for "no_signal".
C6_EmphasisIsNoEmotion ==
  signal_type = "emphasis_detected" =>
    /\ has_signal
    /\ pc \notin { "start", "step2" } => Len(stages) >= 2 /\ stages[2] = "sarcasm"
    /\ pc = "done" =>
         /\ DOMAIN emotion_probs.num = Labels
         /\ path \in { "sarcasm", "classifier", "short", "ambiguous" }
         /\ path = "sarcasm" <=> SarcasmMatches(text)
         /\ path # "sarcasm" => apiCalls = 1

\* C6's case: emphasis was detected and the classifier's answer returned
C6_Witness ==
  /\ signal_type = "emphasis_detected"
  /\ pc = "done"
  /\ path = "classifier"

\* C7: a text with no keyword and no emoji match that matches a sarcasm
\* pattern gets anger 0.5, disgust 0.2 and every other label 0.05, so anger
\* is dominant, and the classifier is not asked.
C7_SarcasmDistribution ==
  (pc = "done" /\ signal_type \notin Labels /\ SarcasmMatches(text)) =>
    /\ IsDist(emotion_probs,
              [ e \in Labels |->
                  IF e = "anger" THEN 50 ELSE IF e = "disgust" THEN 20 ELSE 5 ])
    /\ Dominant(emotion_probs) = "anger"
    /\ apiCalls = 0

\* C7's case: a sarcastic text without keyword or emoji has been scored
C7_Witness ==
  /\ pc = "done"
  /\ signal_type = "no_signal"
  /\ SarcasmMatches(text)
  /\ path = "sarcasm"

\* the messages of a chat whose dominant label is the given one
CountDominant(messages, label) ==
  Cardinality({ k \in 1..Len(messages) : messages[k].dominant = label })

DominantsOf(messages) == { messages[k].dominant : k \in 1..Len(messages) }

\* C8: the metadata's dominant_emotion of a chat with messages is
\* a label of the highest count among the messages' dominant labels, and
\* among the labels of that count the earliest in the fixed label order.
C8_MajorityTieByLabelOrder ==
  \A c \in DOMAIN chats :
    LET messages == chats[c].messages
        d == chats[c].metadata.dominant_emotion
    IN  messages # << >> =>
          /\ d \in DominantsOf(messages)
          /\ \A o \in DominantsOf(messages) :
               /\ CountDominant(messages, d) >= CountDominant(messages, o)
               /\ CountDominant(messages, d) = CountDominant(messages, o)
                    => KeyIndex(d) <= KeyIndex(o)

\* C9: in every stored chat the k-th message has id k, messageCount is the
\* number of stored messages, and each of the 10 timeline lists has one
\* entry per stored message.
C9_SequentialIdsCountAndTimeline ==
  \A c \in DOMAIN chats :
    LET chat == chats[c]
    IN  /\ \A k \in 1..Len(chat.messages) : chat.messages[k].id = k
        /\ chat.metadata.messageCount = Len(chat.messages)
        /\ DOMAIN chat.emotionTimeline = Labels
        /\ \A e \in Labels :
             /\ Len(chat.emotionTimeline[e]) = Len(chat.messages)
             /\ \A k \in 1..Len(chat.messages) :
                  chat.emotionTimeline[e][k] =
                    << chat.messages[k].probs.num[e], chat.messages[k].probs.den >>

\* C9's case: a second message has just been added to a chat
C9_Witness ==
  /\ ret.op = "add_message"
  /\ ret.chat_id \in DOMAIN chats
  /\ Len(chats[ret.chat_id].messages) = 2
  /\ chats[ret.chat_id].messages[2].id = 2

\* C10: when two add-message requests on the same chat interleave, both
\* messages are stored with distinct consecutive ids, messageCount is the
\* number of stored messages, and the messageId each request reports is the
\* id of the message it stored.
C10_ConcurrentAddsKeepIds ==
  (req # << >> /\ \A r \in DOMAIN req : req[r].pc = "done") =>
    LET chat == chats[SharedChat]
    IN  /\ Len(chat.messages) = Cardinality(DOMAIN req)
        /\ \A k \in 1..Len(chat.messages) : chat.messages[k].id = k
        /\ chat.metadata.messageCount = Len(chat.messages)
        /\ \A r \in DOMAIN req :
             req[r].messageId = chat.messages[req[r].position].id


\* the summary a get_emotion_summary call on a stored chat has just returned
SummaryReturned ==
  /\ ret.op = "get_emotion_summary"
  /\ ret.chat_id \in DOMAIN chats

\* the messages of the chat the last call was about
MessagesOfCall == chats[ret.chat_id].messages

\* the fraction << n, d >> in lowest terms
Reduced(n, d) == << n \div Gcd(n, d), d \div Gcd(n, d) >>

\* the sum of two fractions, in lowest terms
FracAdd(a, b) == Reduced(a[1] * b[2] + b[1] * a[2], a[2] * b[2])

\* the sum of label e's probability over the messages, as a fraction
RECURSIVE ProbabilitySum(_, _)
ProbabilitySum(messages, e) ==
  IF messages = << >> THEN << 0, 1 >>
  ELSE FracAdd(ProbabilitySum(Tail(messages), e),
               Reduced(Head(messages).probs.num[e], Head(messages).probs.den))

\* the sum of the messages' stored entropies, in thousandths
RECURSIVE StoredEntropySum(_)
StoredEntropySum(messages) ==
  IF messages = << >> THEN 0
  ELSE Head(messages).entropy + StoredEntropySum(Tail(messages))

\* each label's score is the sum of its probability over the messages
\* divided by the message count, and the dominant emotion is an arg-max
MeanScoresAndArgMax ==
  LET messages == MessagesOfCall
      scores == ret.result.scores
      d == ret.result.dominant_emotion
  IN  /\ DOMAIN scores.num = Labels
      /\ \A e \in Labels :
           LET sum == ProbabilitySum(messages, e)
           IN  Reduced(scores.num[e], scores.den)
                 = Reduced(sum[1], sum[2] * Len(messages))
      /\ d \in Labels
      /\ \A o \in Labels : scores.num[d] >= scores.num[o]

\* C11: the summary of a chat whose messages were all scored by
\* classify_emotion has exactly the 10 labels in its scores, each score in
\* [0,1], and the scores sum to 1.0 within 0.01.
C11_SummaryScoresSumToOne ==
  SummaryReturned =>
    LET scores == ret.result.scores
        total == SumOver(scores.num, DOMAIN scores.num)
    IN  /\ DOMAIN scores.num = Labels
        /\ \A e \in Labels : 0 <= scores.num[e] /\ scores.num[e] <= scores.den
        /\ 100 * (total - scores.den) <= scores.den
        /\ 100 * (scores.den - total) <= scores.den

\* C12 as stated: for a chat with at least one message the summary gives
\* each label the sum of its probability over the messages divided by the
\* message count, an arg-max of these as dominant_emotion, and as confidence
\* exactly 1 minus the mean of the messages' stored entropies.
C12_MeanScoresExactConfidence ==
  (SummaryReturned /\ MessagesOfCall # << >>) =>
    LET n == Len(MessagesOfCall)
    IN  /\ MeanScoresAndArgMax
        /\ ret.result.confidence * (1000 * n)
             = 100 * (1000 * n - StoredEntropySum(MessagesOfCall))

\* C12 as amended: for a chat with at least one message the summary gives
\* each label the sum of its probability over the messages divided by the
\* message count, an arg-max of these as dominant_emotion, and as confidence
\* 1 minus the mean of the messages' stored entropies rounded to two
\* decimal places (confidence is in hundredths, the entropies in
\* thousandths).
C12_MeanScoresRoundedConfidence ==
  (SummaryReturned /\ MessagesOfCall # << >>) =>
    LET n == Len(MessagesOfCall)
        exact == 100 * (1000 * n - StoredEntropySum(MessagesOfCall))
        given == ret.result.confidence * (1000 * n)
    IN  /\ MeanScoresAndArgMax
        /\ 2 * (exact - given) <= 1000 * n
        /\ 2 * (given - exact) <= 1000 * n

\* C12's case: the summary of a chat with two messages of different
\* distributions whose confidence is not a whole number of hundredths
C12_Witness ==
  /\ SummaryReturned
  /\ Len(MessagesOfCall) = 2
  /\ MessagesOfCall[1].probs # MessagesOfCall[2].probs
  /\ StoredEntropySum(MessagesOfCall) % 20 # 0

\* C13 as stated: the dominant emotion of the summary is the majority vote
\* over the dominant labels of the chat's messages, and so equals the
\* dominant_emotion kept in the chat's metadata.
C13_SummaryDominantIsMajorityVote ==
  (SummaryReturned /\ MessagesOfCall # << >>) =>
    LET d == ret.result.dominant_emotion
    IN  /\ d \in DominantsOf(MessagesOfCall)
        /\ \A o \in DominantsOf(MessagesOfCall) :
             CountDominant(MessagesOfCall, d) >= CountDominant(MessagesOfCall, o)
        /\ d = chats[ret.chat_id].metadata.dominant_emotion

\* C13 as amended: the dominant emotion of the summary is the arg-max of the
\* averaged scores, not a majority vote; it equals the dominant_emotion kept
\* in the chat's metadata whenever all messages of the chat have the same
\* dominant label, each the arg-max of its own distribution.
C13_SummaryDominantIsArgMaxOfMeans ==
  (SummaryReturned /\ MessagesOfCall # << >>) =>
    LET messages == MessagesOfCall
        d == ret.result.dominant_emotion
    IN  /\ \A o \in Labels :
             LET mine == ProbabilitySum(messages, d)
                 other == ProbabilitySum(messages, o)
             IN  mine[1] * other[2] >= other[1] * mine[2]
        /\ \A x \in Labels :
             (/\ DominantsOf(messages) = {x}
              /\ \A k \in 1..Len(messages), o \in Labels :
                   messages[k].probs.num[x] >= messages[k].probs.num[o])
             => /\ d = x
                /\ chats[ret.chat_id].metadata.dominant_emotion = x

\* C13's case: two of three messages have the dominant label the metadata
\* keeps, and the summary reports another
C13_Witness ==
  /\ SummaryReturned
  /\ Len(MessagesOfCall) = 3
  /\ CountDominant(MessagesOfCall,
                   chats[ret.chat_id].metadata.dominant_emotion) = 2
  /\ ret.result.dominant_emotion # chats[ret.chat_id].metadata.dominant_emotion

\* two summaries agree in scores, dominant emotion and confidence, and in
\* their text when both were asked with the text or both without
SameSummary(a, b) ==
  /\ a.scores = b.scores
  /\ a.dominant_emotion = b.dominant_emotion
  /\ a.confidence = b.confidence
  /\ (a.summary_text.wording = "None" <=> b.summary_text.wording = "None")
       => a.summary_text = b.summary_text

\* C14: a get_emotion_summary call changes neither the messages nor the
\* metadata of any chat, and, no message being added in between, it returns
\* the scores, dominant emotion, confidence and text that the call before it
\* on the same chat returned (the summary cache keeps the result of the last
\* call on a chat with messages).
C14_SummaryRepeatable ==
  [][ (ret'.op = "get_emotion_summary" /\ ret'.chat_id \in DOMAIN chats) =>
        /\ chats' = chats
        /\ ret'.chat_id \in DOMAIN emotion_cache
             => SameSummary(ret'.result, emotion_cache[ret'.chat_id])
        /\ (ret.op = "get_emotion_summary" /\ ret.chat_id = ret'.chat_id)
             => SameSummary(ret'.result, ret.result)
    ]_vars

\* C14's case: the summary of a chat with messages was returned and cached
\* and the title was then changed, so that the next call on the chat is a
\* second call with no message added in between
C14_Witness ==
  /\ ret.op = "update_chat_title"
  /\ ret.chat_id \in DOMAIN emotion_cache
  /\ chats[ret.chat_id].messages # << >>
  /\ chats[ret.chat_id].metadata.title \in Titles

\* C15: for a stored chat without messages get_emotion_summary returns
\* confidence 0.0, dominant_emotion neutral, the score 0.1 for each of the 10
\* labels, and the text "No messages yet.", or no text when
\* include_summary_text is false.
C15_EmptyChatSummary ==
  (SummaryReturned /\ MessagesOfCall = << >>) =>
    /\ ret.result.confidence = 0
    /\ ret.result.dominant_emotion = "neutral"
    /\ IsDist(ret.result.scores, [ e \in Labels |-> 10 ])
    /\ ret.result.summary_text.wording =
         IF ret.include_summary_text THEN "No messages yet." ELSE "None"
    /\ ret.result.summary_text.primary = "none"
    /\ ret.result.summary_text.occasional = "none"
    /\ ret.chat_id \notin DOMAIN emotion_cache

\* C15's case: the summary of a chat without messages, asked with the text
C15_Witness ==
  /\ SummaryReturned
  /\ MessagesOfCall = << >>
  /\ ret.include_summary_text
  /\ ret.result.summary_text.wording = "No messages yet."

\* the label of the second-highest score: the highest among the labels other
\* than the dominant one, the earliest in the label order among equals
SecondHighest(scores, dominant) ==
  CHOOSE s \in Labels \ {dominant} :
    \A o \in Labels \ {dominant} :
      \/ scores.num[s] > scores.num[o]
      \/ scores.num[s] = scores.num[o] /\ KeyIndex(s) <= KeyIndex(o)

\* the sentence of the summary names the dominant label P, and the
\* second-highest label S exactly when S has a score above 0.1 and is not P
SentenceNamesLabels ==
  LET scores == ret.result.scores
      P == ret.result.dominant_emotion
      S == SecondHighest(scores, P)
      sentence == ret.result.summary_text
  IN  /\ sentence.primary = P
      /\ sentence.occasional =
           IF 10 * scores.num[S] > scores.den /\ S # P THEN S ELSE "none"

SentenceReturned ==
  /\ SummaryReturned
  /\ MessagesOfCall # << >>
  /\ ret.include_summary_text

\* C16 as stated: the sentence is determined by the summary's confidence and
\* scores: "strongly dominated by P" when the confidence is above 0.7,
\* "shows P" when it is above 0.4 and at most 0.7, and "mixed emotions with
\* some P" otherwise, with ", with occasional S" exactly when the
\* second-highest label S has a score above 0.1 and differs from P.
C16_SentenceFromSummaryConfidence ==
  SentenceReturned =>
    /\ SentenceNamesLabels
    /\ ret.result.summary_text.wording =
         IF ret.result.confidence > 70 THEN "strongly dominated by"
         ELSE IF ret.result.confidence > 40 THEN "shows"
         ELSE "has mixed emotions with some"

\* C16 as amended: the sentence is determined by the scores and by the
\* confidence before it is rounded, 1 minus the mean of the messages' stored
\* entropies: "strongly dominated by P" when that is above 0.7, "shows P"
\* when it is above 0.4 and at most 0.7, and "mixed emotions with some P"
\* otherwise, with ", with occasional S" exactly when the second-highest
\* label S has a score above 0.1 and differs from P.
C16_SentenceFromUnroundedConfidence ==
  SentenceReturned =>
    LET n == Len(MessagesOfCall)
        unrounded == 1000 * n - StoredEntropySum(MessagesOfCall)
    IN  /\ SentenceNamesLabels
        /\ ret.result.summary_text.wording =
             IF unrounded > 700 * n THEN "strongly dominated by"
             ELSE IF unrounded > 400 * n THEN "shows"
             ELSE "has mixed emotions with some"

\* C16's case: the confidence before rounding is above 0.4 and the summary
\* gives 0.4, and the sentence says "shows"
C16_Witness ==
  /\ SentenceReturned
  /\ ret.result.confidence = 40
  /\ ret.result.summary_text.wording = "shows"
  /\ 1000 * Len(MessagesOfCall) - StoredEntropySum(MessagesOfCall)
       > 400 * Len(MessagesOfCall)

\* the chats, the users' indexes and the summary cache are left as they are
StoreUntouched ==
  /\ chats' = chats
  /\ user_chats' = user_chats
  /\ emotion_cache' = emotion_cache

\* C17: delete_chat by a user who is not the chat's owner returns False as
\* it does for a chat that is not stored, the endpoint answers both with 404
\* and the same detail text, and the chat, the owner's index and the summary
\* cache are left unchanged.
C17_DeleteByNonOwnerLikeMissing ==
  [][ ret'.op = "delete_chat" =>
        LET c == ret'.chat_id
            missing == c \notin DOMAIN chats
            foreign == c \in DOMAIN chats
                         /\ chats[c].metadata.userId # ret'.user_id
        IN  (missing \/ foreign) =>
              /\ ret'.result = FALSE
              /\ StoreUntouched
              /\ delete_chat_endpoint(c, ret'.result) =
                   [ status_code |-> 404,
                     detail |-> << "Chat ", c, " not found or unauthorized" >> ]
    ]_vars

\* C17's case: a user who does not own a stored chat with a cached summary
\* has tried to delete it
C17_Witness ==
  /\ ret.op = "delete_chat"
  /\ ret.result = FALSE
  /\ ret.chat_id \in DOMAIN chats
  /\ chats[ret.chat_id].metadata.userId # ret.user_id
  /\ ret.chat_id \in DOMAIN emotion_cache
  /\ ret.chat_id \in Range(user_chats[chats[ret.chat_id].metadata.userId])

\* C18: each user's index lists exactly the ids of the stored chats the user
\* owns, each once; the summary cache holds entries for stored chats only;
\* after a successful delete_chat the chat is in neither the store, an index
\* nor the cache, and get_chat on an id that is not stored finds nothing.
C18_IndexAndCacheFollowStore ==
  /\ \A u \in Users :
       /\ Range(user_chats[u]) =
            { c \in DOMAIN chats : chats[c].metadata.userId = u }
       /\ Cardinality(Range(user_chats[u])) = Len(user_chats[u])
  /\ \A c \in DOMAIN chats : chats[c].metadata.userId \in Users
  /\ DOMAIN emotion_cache \subseteq DOMAIN chats
  /\ (ret.op = "delete_chat" /\ ret.result = TRUE) =>
       /\ ret.chat_id \notin DOMAIN chats
       /\ ret.chat_id \notin DOMAIN emotion_cache
       /\ \A u \in Users : ret.chat_id \notin Range(user_chats[u])
  /\ (ret.op = "get_chat" /\ ret.chat_id \notin DOMAIN chats) =>
       ret.result = "None"

\* C18's case: a user's chat has been deleted and another chat of the same
\* user is still stored
C18_Witness ==
  /\ ret.op = "delete_chat"
  /\ ret.result = TRUE
  /\ user_chats[ret.user_id] # << >>
  /\ ret.chat_id \notin DOMAIN chats

\* C19: get, add-message, summarize, title-update and delete on a chat id
\* that is not stored report the missing chat (None, ValueError, None,
\* ValueError, False) and leave the chats, the indexes and the cache as they
\* are: nothing is created for that id.
C19_MissingChatReported ==
  [][ ( /\ ret'.op \in { "get_chat", "add_message", "get_emotion_summary",
                         "update_chat_title", "delete_chat" }
        /\ ret'.chat_id \notin DOMAIN chats ) =>
        /\ StoreUntouched
        /\ ret'.chat_id \notin DOMAIN chats'
        /\ ret'.op \in { "get_chat", "get_emotion_summary" }
             => ret'.result = "None"
        /\ ret'.op \in { "add_message", "update_chat_title" }
             => ret'.result = "ValueError"
        /\ ret'.op = "delete_chat" => ret'.result = FALSE
    ]_vars

\* C19's case: add_message was called for an id that is not stored while
\* another chat is
C19_Witness ==
  /\ ret.op = "add_message"
  /\ ret.result = "ValueError"
  /\ ret.chat_id \notin DOMAIN chats
  /\ DOMAIN chats # {}

\* what the paging client has got so far agrees with the user's N chats
PagingOnTrack ==
  \A r \in DOMAIN req :
    LET N == Len(user_chats[req[r].user_id])
        limit == req[r].limit
        pages == IF N = 0 THEN 1 ELSE (N + limit - 1) \div limit
    IN  /\ req[r].requests <= pages
        /\ req[r].totals \subseteq { N }
        /\ Cardinality(Range(req[r].seen)) = Len(req[r].seen)
        /\ Range(req[r].seen) \subseteq Range(user_chats[req[r].user_id])
        /\ req[r].pc = "page" =>
             /\ req[r].requests < pages
             /\ req[r].requests > 0 => req[r].cursor # << >>
        /\ req[r].pc = "done" =>
             /\ req[r].requests = pages
             /\ req[r].cursor = << >>
             /\ req[r].totals = { N }
             /\ Range(req[r].seen) = Range(user_chats[req[r].user_id])
             /\ Len(req[r].seen) = N

PagingDone == \A r \in DOMAIN req : req[r].pc = "done"

\* C20: paging through the N chats of a user with a page size limit >= 1,
\* from no cursor and with each nextCursor passed on, ends with nextCursor
\* None after ceil(N/limit) requests (one request when N = 0), has then
\* returned each of the user's chats exactly once, and every page reports
\* total = N.
C20_PagingReturnsEachChatOnce == []PagingOnTrack /\ <>PagingDone

\* C20's case: three chats of one user, the newest not updated last, have
\* been paged through in two requests of two
C20_Witness ==
  \E r \in DOMAIN req :
    /\ req[r].pc = "done"
    /\ req[r].limit = 2
    /\ req[r].requests = 2
    /\ Len(user_chats[req[r].user_id]) = 3
    /\ req[r].seen # user_chats[req[r].user_id]
    /\ req[r].seen[1] # 3

(***************************************************************************)
(* The claims on the timeline helpers.                                     *)
(***************************************************************************)
\* the timeline request has smoothed its values
Smoothed(r) == req[r].pc \in { "peaks", "done" }

\* a and b are the same number
FracSame(a, b) == a.num * b.den = b.num * a.den

\* the sum of the values at the 0-based indices in S, over the common
\* denominator 10 of the intensities, in tenths
RECURSIVE TenthsOver(_, _)
TenthsOver(values, S) ==
  IF S = {} THEN 0
  ELSE LET i == CHOOSE j \in S : TRUE
       IN  (values[i + 1].num * 10) \div values[i + 1].den
             + TenthsOver(values, S \ {i})

\* C21: apply_smoothing(values, window) returns a list of the same length
\* as values whose element i is the mean of
\* values[max(0, i - window//2) .. min(n, i + window//2 + 1)); for
\* window < 1 it returns values unchanged, and for a one-element list [x]
\* and any window >= 1 it returns [x].
C21_CenteredMovingAverage ==
  \A r \in DOMAIN req :
    Smoothed(r) =>
      LET values == req[r].values
          window == req[r].window
          out == req[r].smoothed
          n == Len(values)
          half == window \div 2
      IN  /\ Len(out) = n
          /\ window < 1 => out = values
          /\ window >= 1 =>
               \A i \in 0..(n - 1) :
                 LET lo == IF i - half > 0 THEN i - half ELSE 0
                     hi == IF i + half + 1 < n THEN i + half + 1 ELSE n
                     S == lo..(hi - 1)
                 IN  \* out[i] = (tenths / 10) / |S|
                     out[i + 1].num * 10 * Cardinality(S)
                       = TenthsOver(values, S) * out[i + 1].den
          /\ (window >= 1 /\ n = 1) => out = values

\* C21's case: a window of 3 has smoothed a list whose values differ, and
\* the first value was averaged with its one neighbour
C21_Witness ==
  \E r \in DOMAIN req :
    /\ Smoothed(r)
    /\ req[r].window = 3
    /\ Len(req[r].values) >= 3
    /\ req[r].values[1] = Frac(1, 10)
    /\ req[r].values[2] = Frac(9, 10)
    /\ req[r].smoothed[1] = Frac(1, 2)
    /\ req[r].smoothed # req[r].values

\* C22: detect_peaks(values, threshold) returns, in strictly increasing
\* order and without duplicates, exactly the interior indices i
\* (1 <= i <= n-2) with values[i] > threshold, values[i] > values[i-1] and
\* values[i] > values[i+1], plus the last index n-1 whenever
\* values[n-1] > threshold; index 0 is returned only when n = 1, and the
\* empty list yields no peaks.
C22_PeaksAreInteriorMaximaAndHighEnd ==
  \A r \in DOMAIN req :
    req[r].pc = "done" =>
      LET values == req[r].smoothed
          threshold == req[r].threshold
          peaks == req[r].peaks
          n == Len(values)
          above(i) == values[i + 1].num * threshold.den
                        > threshold.num * values[i + 1].den
          over(i, j) == values[i + 1].num * values[j + 1].den
                          > values[j + 1].num * values[i + 1].den
          expected == { i \in 1..(n - 2) :
                          above(i) /\ over(i, i - 1) /\ over(i, i + 1) }
                        \cup (IF n > 0 /\ above(n - 1) THEN { n - 1 } ELSE {})
      IN  /\ \A k \in 1..(Len(peaks) - 1) : peaks[k] < peaks[k + 1]
          /\ Range(peaks) = expected
          /\ 0 \in Range(peaks) => n = 1
          /\ n = 0 => peaks = << >>

\* C22's case: an interior peak and a final value above the threshold, both
\* returned
C22_Witness ==
  \E r \in DOMAIN req :
    /\ req[r].pc = "done"
    /\ req[r].window = 1
    /\ req[r].threshold = Frac(7, 10)
    /\ req[r].values = << Frac(1, 10), Frac(9, 10), Frac(3, 10), Frac(9, 10) >>
    /\ req[r].peaks = << 1, 3 >>

(***************************************************************************)
(* The claims on the store's frame.                                        *)
(***************************************************************************)
\* the stored messages of chat c are, after the step, the ones before it,
\* followed by whatever the step appended
MessagesKept(c) ==
  /\ Len(chats'[c].messages) >= Len(chats[c].messages)
  /\ SubSeq(chats'[c].messages, 1, Len(chats[c].messages)) = chats[c].messages

\* the chat the step's operation was called on
ChatOfStep == ret'.chat_id

\* C23: a stored message is never changed after it is appended: across any
\* sequence of add_message, update_chat_title, get_emotion_summary,
\* create_chat and delete_chat of other chats, every message of a surviving
\* chat keeps its id, speaker, text, timestamp, distribution, dominant label,
\* entropy and confidence, and operations on one chat leave every other
\* chat's messages, metadata and timeline unchanged.
C23_StoredMessagesNeverChange ==
  [][ \A c \in DOMAIN chats \cap DOMAIN chats' :
        /\ MessagesKept(c)
        /\ c # ChatOfStep => chats'[c] = chats[c]
        /\ ret'.op \in { "get_chat", "get_emotion_summary", "delete_chat" }
             => chats'[c] = chats[c]
        /\ ret'.op = "update_chat_title"
             => /\ chats'[c].messages = chats[c].messages
                /\ chats'[c].emotionTimeline = chats[c].emotionTimeline
    ]_vars

\* C23's case: a chat that holds a message has outlived the deletion of
\* another chat
C23_Witness ==
  /\ ret.op = "delete_chat"
  /\ ret.result = TRUE
  /\ \E c \in DOMAIN chats : chats[c].messages # << >>

\* C29: a title set by update_chat_title stays the chat's title until the
\* next update_chat_title on that chat: no add_message, whatever its speaker
\* and whatever the number of messages already stored, changes the title
\* afterwards.  (A title of Titles is one only update_chat_title sets.)
C29_SetTitleOutlivesMessages ==
  [][ \A c \in DOMAIN chats \cap DOMAIN chats' :
        (ret'.op = "add_message" /\ chats[c].metadata.title \in Titles)
          => chats'[c].metadata.title = chats[c].metadata.title
    ]_vars

(***************************************************************************)
(* The claims on the signal detector and the classifier's answer.          *)
(***************************************************************************)
\* the emotions an emoji of which stands in the text
EmojiEmotions ==
  { EMOTION_EMOJIS[p].emotion :
      p \in { q \in 1..Len(EMOTION_EMOJIS) :
                \E k \in 1..Len(text) : text[k] \in EMOTION_EMOJIS[q].emojis } }

\* the text holds "!!", "??" or three capitals in a row
EmphasisInText ==
  \E i \in 1..(Len(text) - 1) :
    \/ text[i] = "!" /\ text[i + 1] = "!"
    \/ text[i] = "?" /\ text[i + 1] = "?"
    \/ /\ i + 2 <= Len(text)
       /\ \A k \in i..(i + 2) : text[k] \in Range(UpperLetters)

\* C24: when a text matches keywords of several emotions,
\* _has_emotion_signal returns the emotion that comes first in the order
\* disgust, anger, sadness, fear, surprise, joy, stress, tension,
\* anticipation, independent of where the keywords stand in the text; any
\* keyword match takes precedence over every emoji match, and any emoji
\* match over every emphasis match.
C24_KeywordThenEmojiThenEmphasis ==
  LET order == << "disgust", "anger", "sadness", "fear", "surprise", "joy",
                  "stress", "tension", "anticipation" >>
      matched == { i \in 1..Len(order) : KeywordAtWordStart(order[i]) }
  IN  pc # "start" =>
        /\ matched # {} =>
             /\ has_signal
             /\ signal_type = order[SetMin(matched)]
        /\ (matched = {} /\ EmojiEmotions # {}) =>
             /\ has_signal
             /\ signal_type \in EmojiEmotions
        /\ (matched = {} /\ EmojiEmotions = {} /\ EmphasisInText) =>
             /\ has_signal
             /\ signal_type = "emphasis_detected"

\* C24's case: an anger keyword stands at the start of the text, a disgust
\* keyword after it, and the detector has named disgust
C24_Witness ==
  /\ pc # "start"
  /\ StartsAt(Lower(text), 1, <<"m","a","d">>)
  /\ \E i \in 4..Len(text) : StartsAt(Lower(text), i, <<"i","d","i","o","t">>)
  /\ has_signal
  /\ signal_type = "disgust"

\* C27: in the keyword/emoji high-confidence distribution the secondary
\* boost is added on top of the 0.02 base before renormalisation: the
\* pre-normalisation weights are 0.80 for the detected label, 0.01 for
\* neutral, 0.02 for every other label, and 0.02 + 0.12 for anger when
\* disgust is detected, 0.02 + 0.08 for disgust when anger is detected,
\* 0.02 + 0.05 for fear when sadness is detected; the result is then divided
\* by its total.
C27_BoostAddedToBase ==
  LET boost(e) ==
        IF signal_type = "disgust" /\ e = "anger" THEN 12
        ELSE IF signal_type = "anger" /\ e = "disgust" THEN 8
        ELSE IF signal_type = "sadness" /\ e = "fear" THEN 5
        ELSE 0
      weights == [ e \in Labels |->
                     IF e = signal_type THEN 80
                     ELSE IF e = "neutral" THEN 1
                     ELSE 2 + boost(e) ]
      total == SumOver(weights, Labels)
  IN  (pc = "done" /\ path = "keyword") =>
        /\ DOMAIN emotion_probs.num = Labels
        /\ \A e \in Labels :
             emotion_probs.num[e] * total = weights[e] * emotion_probs.den

\* C30: whenever the signal detector reports a signal for a text (a keyword,
\* an emoji or an emphasis pattern such as "!!", "??" or three consecutive
\* capitals), the distribution returned by classify_emotion does not have
\* neutral as its dominant label, whether the classifier succeeds, answers
\* neutral, or fails.
C30_SignalNeverNeutral ==
  (pc = "done" /\ has_signal) => Dominant(emotion_probs) # "neutral"

(***************************************************************************)
(* The claims on the parser and the anti-neutral enforcement.              *)
(***************************************************************************)
\* the label a segment "label: value" names, lower-cased
SegmentLabel(seg) ==
  LowerToken(seg[SetMin({ i \in 1..Len(seg) : seg[i] # " " })])

\* the value a segment gives, in hundredths, clamped to [0, 1]
SegmentValue(seg) ==
  LET v == FloatOf(seg[Len(seg)])
  IN  IF v < 0 THEN 0 ELSE IF v > 100 THEN 100 ELSE v

\* the values the pairs of known label give: for each label the value of
\* its last pair, 0 for a label without a pair
KnownValues(segments) ==
  [ e \in Labels |->
      LET at == { i \in 1..Len(segments) : SegmentLabel(segments[i]) = e }
      IN  IF at = {} THEN 0 ELSE SegmentValue(segments[SetMax(at)]) ]

\* the distribution d has neutral above 0.5 and a non-neutral label at or
\* above 0.30
NeutralOverEmotion(d) ==
  /\ 2 * d.num["neutral"] > d.den
  /\ \E e \in Labels \ {"neutral"} : 10 * d.num[e] >= 3 * d.den

\* C25: a distribution returned from the classifier stage never has neutral
\* above 0.5 together with a non-neutral label at or above 0.30: whenever
\* the parsed distribution has that shape it is replaced by 0.6 for the
\* highest non-neutral label (first in label order on ties), 0.2 for neutral
\* and 0.025 for each of the other 8 labels, and otherwise the parsed
\* distribution is returned unchanged.
C25_NeutralNeverOverAnEmotion ==
  \A r \in DOMAIN req :
    req[r].pc = "done" =>
      LET parsed == req[r].parsed
          out == req[r].emotion_probs
          others == Labels \ {"neutral"}
          highest == { e \in others : \A o \in others : parsed.num[e] >= parsed.num[o] }
          first == CHOOSE e \in highest : \A o \in highest : KeyIndex(e) <= KeyIndex(o)
      IN  /\ ~NeutralOverEmotion(out)
          /\ NeutralOverEmotion(parsed) =>
               /\ DOMAIN out.num = Labels
               /\ \A e \in Labels :
                    1000 * out.num[e] =
                      out.den * (IF e = first THEN 600
                                 ELSE IF e = "neutral" THEN 200 ELSE 25)
          /\ ~NeutralOverEmotion(parsed) => out = parsed

\* C25's case: the response gave neutral 0.6 and anger 0.3, which parse to
\* two thirds and one third, and the returned distribution has anger at 0.6
C25_Witness ==
  \E r \in DOMAIN req :
    /\ req[r].pc = "done"
    /\ 3 * req[r].parsed.num["neutral"] = 2 * req[r].parsed.den
    /\ 3 * req[r].parsed.num["anger"] = req[r].parsed.den
    /\ 10 * req[r].emotion_probs.num["anger"] = 6 * req[r].emotion_probs.den
    /\ 10 * req[r].emotion_probs.num["neutral"] = 2 * req[r].emotion_probs.den

\* C26: _parse_emotion_response ignores every pair whose label is not one
\* of the 10 fixed labels, whatever that pair's value text is: the result
\* equals the known-label values clamped to [0,1] and renormalised to sum 1,
\* or the uniform 0.1-per-label distribution when all known-label values are
\* zero or absent, and adding or removing unknown-label pairs in the
\* response never changes the result.
C26_UnknownLabelsIgnored ==
  \A r \in DOMAIN req :
    req[r].pc # "parse" =>
      LET parsed == req[r].parsed
          known == KnownValues(req[r].segments)
          total == SumOver(known, Labels)
      IN  /\ DOMAIN parsed.num = Labels
          /\ \A e \in Labels :
               IF total > 0
               THEN parsed.num[e] * total = known[e] * parsed.den
               ELSE 10 * parsed.num[e] = parsed.den

(***************************************************************************)
(* The claim on paging while chats are updated.                            *)
(***************************************************************************)
\* C28: a cursor-paginated traversal of a user's chats returns each chat at
\* most once and misses no chat that exists throughout the traversal, even
\* when add_message or update_chat_title calls on that user's chats happen
\* between two page requests.  (No chat is created or deleted here, so
\* every chat of the user exists throughout.)
C28_PagingStableUnderUpdates ==
  \A r \in DOMAIN req :
    LET seen == req[r].seen
    IN  /\ \A i, j \in 1..Len(seen) : seen[i] = seen[j] => i = j
        /\ req[r].pc = "done" =>
             \A c \in Range(user_chats[req[r].user_id]) : c \in Range(seen)
=============================================================================
